---------------------------- MODULE Spec2Model ----------------------------
(***************************************************************************)
(* A model of the FioriMCP command surface: the generated MCP servers       *)
(* (stdio and HTTP), the REPL, the one-shot CLI and the metadata            *)
(* reconciler.  Strings are sequences of one-character strings, so that     *)
(* normalisation, equality and substring tests are computed, not assumed.   *)
(***************************************************************************)
EXTENDS Integers, Sequences, FiniteSets, TLC

VARIABLES
    \* ---- filter resolution (setFilter in the servers, the REPL, the CLI)
    filters,        \* all.filters of the metadata file: <<[propertyKey, label]>>
    target,         \* the propertyKey argument of setFilter
    allJson,        \* TRUE iff the file all.json exists
    impl,           \* which setFilter ran: "none" | "server" | "repl" | "cli"
    resolved,       \* index in filters of the descriptor found, 0 for none
    outcome,        \* how the command ended
    listed,         \* the alternatives the not-found payload enumerates
    \* ---- metadata reconciliation (extract-all, extract-filters)
    controls,       \* scan.controls, in registry order
    tool,           \* which reconciler ran: "none" | "extract-all" | "extract-filters"
    descriptors,    \* the filter descriptors it wrote
    p13n,           \* scan.extras.tablesP13n: <<[tableId, columns]>>
    tablesOut,      \* the table descriptors it wrote
    \* ---- the REPL (rc-repl.js)
    lines,          \* input lines not yet emitted by readline
    handlers,       \* the 'line' handlers started so far: <<[cmd, pc, ctx]>>
    state,          \* main's state object: [context, page], 0 for null
    openCtx,        \* the persistent contexts launched and not closed
    nCtx,           \* how many contexts were launched
    \* ---- a table action of the generated stdio server
    tables,         \* all.tables of the metadata file: <<[actions]>>
    action,         \* the action argument of the tool
    dom,            \* what the page shows: the surfaces the handlers query
    actTool,        \* "none" | "execute_action" | "execute_table_action"
    actPc,          \* where the handler stands
    sel,            \* executeTableAction: index of the selector being tried
    clicks,         \* how many clicks the handler performed
    messages,       \* how many messages the handler collected
    scenario,       \* the scenario field of the returned payload, "" if none
    actResult,      \* "pending" | "returned" | the error thrown
    \* ---- the session of a generated server
    flavor,         \* "stdio" | "http"
    browser,        \* this.browser: a browser id, 0 for null
    context,        \* this.context: [cx, b], the context and its browser
    page,           \* this.page: [cx, b], its context and its browser
    alive,          \* the browsers launched, connected and not closed
    nDisconnects,   \* how many browsers crashed or were closed from outside
    calls,          \* the tool calls received: <<[tool, pc, ...]>>
    \* ---- commands that read the page (getRows)
    cells,          \* the data cells of the rendered row: <<[colId, nodes]>>
    hasHeader,      \* TRUE iff the table's header row is rendered
    reader,         \* which getRows ran: "none" | "repl" | "server" | "cli"
    rowObj,         \* the row object it returned: <<[key, text]>>
    \* ---- the flow recorder of the stdio server
    flowRecorder,   \* this.flowRecorder: [isRecording, steps]
    history,        \* the tool calls answered: <<[tool, result, steps]>>
    \* ---- selector derivation
    rawId,          \* a control id, as a sequence of characters
    css,            \* the selector derived from it, <<>> before
    \* ---- pressing Go
    goDom,          \* the page once the press has settled
    goImpl,         \* which pressGo runs: "none" | "repl" | "server" | "cli"
    goPc,           \* the await it is at
    goWaits,        \* the waits it has performed
    goOut,          \* what it returned or threw
    \* ---- selecting a row
    rowArg,         \* the row index argument
    rowCb,          \* aria-checked of the row's checkbox, "absent" without one
    rowBg,          \* TRUE iff the checkbox has a decoration element
    rowImpl,        \* which selectRow runs: "none" | "repl" | "server"
    rowPc,          \* the await it is at
    rowTried,       \* the attempts made: <<[how, from, to]>>
    rowReport,      \* what it printed or returned
    \* ---- opening the object page of a row
    navIcon,        \* TRUE iff the row has a navigation icon
    navPage,        \* what the page shows: [layout, header, moved, hashOP]
    navClock,       \* time since the click, in ticks
    navImpl,        \* which openObjectPage runs: "none" | "repl" | "server"
    navPc,          \* the await it is at
    navOut,         \* how it ended
    \* ---- the control scan
    registry,       \* the element registry: <<[id, live, shell, fails]>>
    includeShell,   \* the --include-shell option
    scanned,        \* the controls the scan returned
    scanPc,         \* "idle" | "done"
    \* ---- tool listing and dispatch
    endpoint,       \* "stdio" | "http_rest" | "http_mcp"
    advertised,     \* the tool names the last listing returned
    toolName,       \* the tool being called
    toolPc,         \* "idle" | "listed" | "called" | "done"
    toolOut,        \* "none" | "handled" | "unknown_tool" | "no_method"
    \* ---- table actions of extract-all / extract-tables
    btnControls,    \* the controls of scan.json: <<[id, type]>>
    btnTables,      \* the table descriptors with their action lists
    btnPc,          \* "idle" | "done"
    \* ---- the column-settings-dialog pass of the scanner
    dlgButtons,     \* number of settings buttons the pass found
    dlgIdx,         \* the button being handled, from 1
    dlgPolls,       \* the loop counter i of the wait for the dialog
    dlgOpen,        \* the settings dialog is in the document
    dlgPc,          \* "idle" | "press" | "poll" | "read" | "sleep" | "done"
    dlgOut,         \* the buttons whose columns were pushed to out
    dlgTimedOut     \* the buttons whose wait ran out without a dialog

resolveVars == <<filters, target, allJson, impl, resolved, outcome, listed>>

reconVars == <<controls, tool, descriptors, p13n, tablesOut>>

replVars == <<lines, handlers, state, openCtx, nCtx>>

actionVars == <<tables, action, dom, actTool, actPc, sel, clicks, messages,
                scenario, actResult>>

serverVars == <<flavor, browser, context, page, alive, nDisconnects, calls>>

pageVars == <<cells, hasHeader, reader, rowObj>>

recVars == <<flowRecorder, history>>

codecVars == <<rawId, css>>

goVars == <<goDom, goImpl, goPc, goWaits, goOut>>

rowVars == <<rowArg, rowCb, rowBg, rowImpl, rowPc, rowTried, rowReport>>

navVars == <<navIcon, navPage, navClock, navImpl, navPc, navOut>>

scanVars == <<registry, includeShell, scanned, scanPc>>

toolsVars == <<endpoint, advertised, toolName, toolPc, toolOut>>

btnVars == <<btnControls, btnTables, btnPc>>

dlgVars == <<dlgButtons, dlgIdx, dlgPolls, dlgOpen, dlgPc, dlgOut, dlgTimedOut>>

vars ==
    <<resolveVars, reconVars, replVars, actionVars, serverVars, pageVars,
      recVars, codecVars, goVars,
      rowVars,
      navVars,
      scanVars,
      toolsVars,
      btnVars,
      dlgVars>>

\* a step of one component leaves the others alone
ResolveOnly == UNCHANGED <<reconVars, replVars, actionVars, serverVars, pageVars,
    recVars, codecVars, goVars, rowVars, navVars, scanVars, toolsVars, btnVars, dlgVars>>
ReconOnly == UNCHANGED <<resolveVars, replVars, actionVars, serverVars, pageVars,
    recVars, codecVars, goVars, rowVars, navVars, scanVars, toolsVars, btnVars, dlgVars>>
ReplOnly == UNCHANGED <<resolveVars, reconVars, actionVars, serverVars, pageVars,
    recVars, codecVars, goVars, rowVars, navVars, scanVars, toolsVars, btnVars, dlgVars>>
PageOnly ==
    UNCHANGED <<resolveVars, reconVars, replVars, actionVars, serverVars,
                recVars, codecVars, goVars, rowVars, navVars, scanVars, toolsVars, btnVars, dlgVars>>
RowOnly ==
    UNCHANGED <<resolveVars, reconVars, replVars, actionVars, serverVars,
                pageVars, recVars, codecVars, goVars, navVars, scanVars, toolsVars, btnVars, dlgVars>>
NavOnly ==
    UNCHANGED <<resolveVars, reconVars, replVars, actionVars, serverVars,
                pageVars, recVars, codecVars, rowVars, goVars, scanVars, toolsVars, btnVars, dlgVars>>
ScanOnly ==
    UNCHANGED <<resolveVars, reconVars, replVars, actionVars, serverVars,
                pageVars, recVars, codecVars, rowVars, navVars, goVars, toolsVars, btnVars, dlgVars>>
ToolsOnly ==
    UNCHANGED <<resolveVars, reconVars, replVars, actionVars, serverVars,
                pageVars, recVars, codecVars, rowVars, navVars, scanVars, goVars, btnVars, dlgVars>>
BtnOnly ==
    UNCHANGED <<resolveVars, reconVars, replVars, actionVars, serverVars,
                pageVars, recVars, codecVars, rowVars, navVars, scanVars, toolsVars, goVars, dlgVars>>
DlgOnly ==
    UNCHANGED <<resolveVars, reconVars, replVars, actionVars, serverVars,
                pageVars, recVars, codecVars, rowVars, navVars, scanVars, toolsVars, btnVars, goVars>>
GoOnly ==
    UNCHANGED <<resolveVars, reconVars, replVars, actionVars, serverVars,
                pageVars, recVars, codecVars, rowVars, navVars, scanVars, toolsVars, btnVars, dlgVars>>
CodecOnly ==
    UNCHANGED <<resolveVars, reconVars, replVars, actionVars, serverVars,
                pageVars, recVars, goVars, rowVars, navVars, scanVars, toolsVars, btnVars, dlgVars>>
RecOnly ==
    UNCHANGED <<resolveVars, reconVars, replVars, actionVars, serverVars,
                pageVars, codecVars, goVars, rowVars, navVars, scanVars, toolsVars, btnVars, dlgVars>>
ActionOnly == UNCHANGED <<resolveVars, reconVars, replVars, serverVars, pageVars,
    recVars, codecVars, goVars, rowVars, navVars, scanVars, toolsVars, btnVars, dlgVars>>
ServerOnly == UNCHANGED <<resolveVars, reconVars, replVars, actionVars, pageVars,
    recVars, codecVars, goVars, rowVars, navVars, scanVars, toolsVars, btnVars, dlgVars>>

\* the list report before any action: no dialog, no message surface
NoSurface ==
    [dialog |-> "none", popover |-> "none", msgBox |-> "none",
     strip |-> "none", objectPage |-> FALSE, formFields |-> FALSE]

\* a page on which Go has not been pressed
NoPress == [noData |-> FALSE, body |-> "none", text |-> FALSE]

\* no row selection under way
RowIdle ==
    /\ rowArg = "0"
    /\ rowCb = "absent"
    /\ rowBg = FALSE
    /\ rowImpl = "none"
    /\ rowPc = "idle"
    /\ rowTried = <<>>
    /\ rowReport = [text |-> "none", row |-> 0]

\* the list report: no object page, the location of before the click
ListReport ==
    [layout |-> FALSE, header |-> FALSE, moved |-> FALSE, hashOP |-> FALSE]

\* no row navigation under way
NavIdle ==
    /\ navIcon = FALSE
    /\ navPage = ListReport
    /\ navClock = 0
    /\ navImpl = "none"
    /\ navPc = "idle"
    /\ navOut = "none"

\* no scan run
ScanIdle ==
    /\ registry = <<>>
    /\ includeShell = FALSE
    /\ scanned = <<>>
    /\ scanPc = "idle"

\* no listing requested
ToolsIdle ==
    /\ endpoint = "stdio"
    /\ advertised = {}
    /\ toolName = ""
    /\ toolPc = "idle"
    /\ toolOut = "none"

\* no table actions extracted
BtnIdle ==
    /\ btnControls = <<>>
    /\ btnTables = <<>>
    /\ btnPc = "idle"

\* the dialog pass not started
DlgIdle ==
    /\ dlgButtons = 0
    /\ dlgIdx = 1
    /\ dlgPolls = 0
    /\ dlgOpen = FALSE
    /\ dlgPc = "idle"
    /\ dlgOut = <<>>
    /\ dlgTimedOut = {}

\* Go not pressed
GoIdle ==
    /\ goDom = NoPress
    /\ goImpl = "none"
    /\ goPc = "idle"
    /\ goWaits = {}
    /\ goOut = [kind |-> "none", rowCount |-> 0, message |-> FALSE]

\* no selector derived
CodecIdle ==
    /\ rawId = <<>>
    /\ css = <<>>

\* the recorder as the constructor leaves it
RecIdle ==
    /\ flowRecorder = [isRecording |-> FALSE, steps |-> <<>>]
    /\ history = <<>>

\* no page read
PageIdle ==
    /\ cells = <<>>
    /\ hasHeader = FALSE
    /\ reader = "none"
    /\ rowObj = <<>>

\* no table action called
ActionIdle ==
    /\ tables = <<>>
    /\ action = ""
    /\ dom = NoSurface
    /\ actTool = "none"
    /\ actPc = "idle"
    /\ sel = 0
    /\ clicks = 0
    /\ messages = 0
    /\ scenario = ""
    /\ actResult = "pending"

\* a null context or page handle
Null == [cx |-> 0, b |-> 0]

\* a server just constructed: this.browser = this.context = this.page = null
Constructed ==
    /\ browser = 0
    /\ context = Null
    /\ page = Null
    /\ alive = {}
    /\ nDisconnects = 0
    /\ calls = <<>>

\* no server running
ServerIdle ==
    /\ flavor = "stdio"
    /\ Constructed

-----------------------------------------------------------------------------
(* Bounds *)

\* longest string drawn for a propertyKey, a label or a target
MaxLen == 2
\* most filter descriptors in the metadata file
MaxFilters == 2
\* most input lines given to the REPL
MaxLines == 3
\* most controls in a scan
MaxControls == 2
\* most filter items of one filter bar
MaxItems == 2

-----------------------------------------------------------------------------
(* Strings *)

\* the characters of keys and labels that normalize leaves alone
PlainChars == {"a", "b"}
\* the characters normalize is about: case, whitespace, hyphen, underscore, s
NormChars == {"a", "s", "S", "-", "_", " "}

StringsOver(chars, n) == UNION {[1..k -> chars] : k \in 0..n}

\* String.prototype.toLowerCase on one character
LowerChar(c) == CASE c = "S" -> "s"
                  [] c = "A" -> "a"
                  [] c = "B" -> "b"
                  [] OTHER -> c

toLowerCase(s) == [i \in 1..Len(s) |-> LowerChar(s[i])]

\* s.replace(/[...]/g, '') for a character class given as a set
StripChars(s, class) == SelectSeq(s, LAMBDA c : c \notin class)

\* String.prototype.includes
includes(hay, needle) ==
    \E i \in 0..(Len(hay) - Len(needle)) :
        SubSeq(hay, i + 1, i + Len(needle)) = needle

\* The character class the generated servers run: /[-_s]/g.  The generator's
\* template literal holds /[-_\s]/g, and a template literal drops the
\* backslash of `\s`, so the emitted class is hyphen, underscore, letter s.
GeneratedClass == {"-", "_", "s"}

\* const normalize = (str) => (str || '').toLowerCase().replace(/[-_s]/g, '')
\* (an undefined label is the empty string here, as `str || ''` makes it)
normalize(str) == StripChars(toLowerCase(str), GeneratedClass)

\* Array.prototype.find over the predicate's value at each element: the
\* index of the first element that satisfies it, 0 when none does
FindIndex(hits) ==
    IF \E i \in 1..Len(hits) : hits[i]
    THEN CHOOSE i \in 1..Len(hits) :
            hits[i] /\ \A j \in 1..(i - 1) : ~hits[j]
    ELSE 0

-----------------------------------------------------------------------------
(* setFilter: the lookup of each implementation *)

\* generated servers: one find whose predicate is the disjunction of the
\* four criteria
ServerMatches(f, searchTerm) ==
    \/ normalize(f.propertyKey) = searchTerm
    \/ normalize(f.label) = searchTerm
    \/ includes(normalize(f.propertyKey), searchTerm)
    \/ includes(normalize(f.label), searchTerm)

ServerFind(fs, key) ==
    FindIndex([i \in 1..Len(fs) |-> ServerMatches(fs[i], normalize(key))])

\* REPL and CLI: all.filters.find((x) => x.propertyKey === key)
ExactFind(fs, key) ==
    FindIndex([i \in 1..Len(fs) |-> fs[i].propertyKey = key])

\* availableFilters = all.filters.map(f => ({propertyKey, label}))
AvailableFilters(fs) ==
    [i \in 1..Len(fs) |-> [propertyKey |-> fs[i].propertyKey, label |-> fs[i].label]]

-----------------------------------------------------------------------------
(* setFilter: the three command handlers.  Each runs once on the drawn input. *)

\* generated stdio and HTTP servers: readFileSync throws ENOENT when the file
\* is absent; a miss returns a payload listing every filter; a hit drives the
\* page, which may throw
SetFilterServer ==
    /\ impl = "none"
    /\ impl' = "server"
    /\ IF ~allJson
       THEN /\ outcome' = "ENOENT"
            /\ resolved' = 0
            /\ listed' = <<>>
       ELSE LET i == ServerFind(filters, target) IN
            IF i = 0
            THEN /\ outcome' = "filter_not_found"
                 /\ resolved' = 0
                 /\ listed' = AvailableFilters(filters)
            ELSE /\ outcome' \in {"filter_set", "page_error"}
                 /\ resolved' = i
                 /\ listed' = <<>>
    /\ UNCHANGED <<filters, target, allJson>>
    /\ ResolveOnly

\* loadAll() then find by exact propertyKey; a miss throws
\* Error(`Filter not found: ${key}`)
ExactSetFilter(who) ==
    /\ impl = "none"
    /\ impl' = who
    /\ IF ~allJson
       THEN /\ outcome' = "all_json_not_found"
            /\ resolved' = 0
       ELSE LET i == ExactFind(filters, target) IN
            IF i = 0
            THEN /\ outcome' = "filter_not_found"
                 /\ resolved' = 0
            ELSE /\ outcome' \in {"filter_set", "page_error"}
                 /\ resolved' = i
    /\ listed' = <<>>
    /\ UNCHANGED <<filters, target, allJson>>
    /\ ResolveOnly

\* REPL: cmd_setFilter
cmd_setFilter == ExactSetFilter("repl")

\* CLI: setFilter
CliSetFilter == ExactSetFilter("cli")

\* metadata files extract-all can write: propertyKeys are non-empty and unique
FilterRecords(chars) ==
    {[propertyKey |-> k, label |-> l] :
        k \in StringsOver(chars, MaxLen) \ {<<>>}, l \in StringsOver(chars, MaxLen)}

UniqueKeys(fs) ==
    \A i, j \in 1..Len(fs) : fs[i].propertyKey = fs[j].propertyKey => i = j

FilterLists(chars, n) ==
    {fs \in UNION {[1..k -> FilterRecords(chars)] : k \in 0..n} : UniqueKeys(fs)}

\* no REPL running
ReplIdle ==
    /\ lines = <<>>
    /\ handlers = <<>>
    /\ state = [context |-> 0, page |-> 0]
    /\ openCtx = {}
    /\ nCtx = 0

\* nothing scanned, no reconciler run
ReconIdle ==
    /\ controls = <<>>
    /\ tool = "none"
    /\ descriptors = <<>>
    /\ p13n = <<>>
    /\ tablesOut = <<>>

InitResolve ==
    /\ PageIdle
    /\ RecIdle
    /\ CodecIdle
    /\ GoIdle
    /\ RowIdle
    /\ NavIdle
    /\ ScanIdle
    /\ ToolsIdle
    /\ BtnIdle
    /\ DlgIdle
    /\ ActionIdle
    /\ ServerIdle
    /\ ReconIdle
    /\ ReplIdle
    /\ allJson \in BOOLEAN
    /\ filters \in (IF allJson THEN FilterLists(PlainChars, MaxFilters) ELSE {<<>>})
    /\ target \in StringsOver(PlainChars, MaxLen) \ {<<>>}
    /\ impl = "none"
    /\ resolved = 0
    /\ outcome = "pending"
    /\ listed = <<>>

NextResolve == SetFilterServer \/ cmd_setFilter \/ CliSetFilter

SpecResolve == InitResolve /\ [][NextResolve]_vars

\* the argument is a non-empty string: the tool schema requires propertyKey,
\* and the REPL and the CLI take it from a non-empty token of the line
\* one descriptor, strings over the characters normalisation is about
InitNormalize ==
    /\ PageIdle
    /\ RecIdle
    /\ CodecIdle
    /\ GoIdle
    /\ RowIdle
    /\ NavIdle
    /\ ScanIdle
    /\ ToolsIdle
    /\ BtnIdle
    /\ DlgIdle
    /\ ActionIdle
    /\ ServerIdle
    /\ ReconIdle
    /\ ReplIdle
    /\ allJson = TRUE
    /\ filters \in FilterLists(NormChars, 1) \ {<<>>}
    /\ target \in StringsOver(NormChars, MaxLen) \ {<<>>}
    /\ impl = "none"
    /\ resolved = 0
    /\ outcome = "pending"
    /\ listed = <<>>

NextNormalize == SetFilterServer

SpecNormalize == InitNormalize /\ [][NextNormalize]_vars

-----------------------------------------------------------------------------
(* Filter reconciliation: extractFilters of extract-all and the standalone  *)
(* extract-filters script.  An id is the sequence of its segments between   *)
(* "--" separators; a propertyKey is a one-segment sequence, <<>> when the  *)
(* scanner found none.                                                      *)

\* const localId = id?.includes('--') ? id.split('--').pop() : id
localId(id) == IF Len(id) > 1 THEN <<id[Len(id)]>> ELSE id

\* JavaScript falsiness of a string: undefined or ''
Falsy(x) == x = <<>> \/ x = <<"">>

\* it.propertyKey || it.localId || it.id
ItemKey(it) ==
    IF ~Falsy(it.propertyKey) THEN it.propertyKey
    ELSE IF ~Falsy(localId(it.id)) THEN localId(it.id)
    ELSE it.id

IsFilterBar(c) == c.roleHint = "filterbar"
IsFilterField(c) == c.type = "sap.ui.mdc.FilterField"

\* filterBarInfo.filterItemCount ?? items.length
ItemCount(bar) == bar.filterItemCount

\* filterBars.reduce((best, cur) => curCount > bestCount ? cur : best, filterBars[0])
RECURSIVE ReduceBest(_, _, _)
ReduceBest(bars, i, best) ==
    IF i > Len(bars) THEN best
    ELSE ReduceBest(bars, i + 1,
                    IF ItemCount(bars[i]) > ItemCount(best) THEN bars[i] ELSE best)

\* fb?.filterBarInfo?.items of the filter bar with the most items, else []
PrimaryItems(cs) ==
    LET bars == SelectSeq(cs, IsFilterBar) IN
    IF Len(bars) = 0 THEN <<>> ELSE ReduceBest(bars, 1, bars[1]).items

\* the item extract-* derives from a standalone FilterField control
FieldItem(f) == [id |-> f.id, propertyKey |-> f.propertyKey]

\* extractFilters: the bar's items, then every FilterField control whose id
\* is not among them
UnionItems(cs) ==
    LET items == PrimaryItems(cs)
        existingIds == {items[i].id : i \in 1..Len(items)}
        fresh(c) == IsFilterField(c) /\ c.id \notin existingIds
        added == SelectSeq(cs, fresh)
    IN  items \o [i \in 1..Len(added) |-> FieldItem(added[i])]

Descriptor(it) ==
    [propertyKey |-> ItemKey(it), filterFieldId |-> it.id, localId |-> localId(it.id)]

\* items.forEach: skip an item whose key is empty or already seen
RECURSIVE DedupByKey(_, _, _)
DedupByKey(items, i, result) ==
    IF i > Len(items) THEN result
    ELSE LET key == ItemKey(items[i])
             seen == {result[j].propertyKey : j \in 1..Len(result)}
         IN  DedupByKey(items, i + 1,
                        IF Falsy(key) \/ key \in seen THEN result
                        ELSE Append(result, Descriptor(items[i])))

\* extract-all.js: extractFilters(controls)
extractFilters(cs) == DedupByKey(UnionItems(cs), 1, <<>>)

\* extract-filters main: FilterField controls are used only when the bar has
\* no items, and every item is mapped to a descriptor
extractFiltersMain(cs) ==
    LET barItems == PrimaryItems(cs)
        fields == SelectSeq(cs, IsFilterField)
        items == IF Len(barItems) = 0
                 THEN [i \in 1..Len(fields) |-> FieldItem(fields[i])]
                 ELSE barItems
    IN  [i \in 1..Len(items) |-> Descriptor(items[i])]

-----------------------------------------------------------------------------
(* Table reconciliation: extractTables of extract-all and the merge of the  *)
(* columns read from the table settings dialog.  A control's tpath is its   *)
(* id seen from the tables: the line-item table whose id it starts with,    *)
(* what follows the table id ("root" for the table itself, "C" for          *)
(* "::C::"), and what follows "::C::", split at "-".                        *)

\* the id of a control that belongs to no table
NoTable == [table |-> "", rel |-> "", after |-> <<>>]

\* c.id.includes('::table::') && c.id.endsWith('::LineItem')
IsTableRoot(c) == c.tpath.rel = "root"

\* c.id.includes(`${basePrefix}::C::`)
IsColumnOf(c, t) == c.tpath.rel = "C" /\ c.tpath.table = t

\* getText(c): c.text || c.labelText || undefined ("" stands for undefined)
getText(c) == c.text

\* colIdControls.forEach: the key is what follows "::C::" up to the first
\* "-"; a control with an empty key or a key already seen is skipped; the
\* label is the text of the control whose id is exactly "...::C::<key>",
\* else of this control, else the key
RECURSIVE ColumnsFrom(_, _, _)
ColumnsFrom(cols, i, result) ==
    IF i > Len(cols) THEN result
    ELSE LET key == cols[i].tpath.after[1]
             seenKeys == {result[j].propertyKey : j \in 1..Len(result)}
             headers == SelectSeq(cols, LAMBDA hc : hc.tpath.after = <<key>>)
             headerControl == IF Len(headers) > 0 THEN headers[1] ELSE cols[i]
             label == IF getText(headerControl) # "" THEN getText(headerControl)
                      ELSE key
         IN  ColumnsFrom(cols, i + 1,
                IF key = "" \/ key \in seenKeys THEN result
                ELSE Append(result, [propertyKey |-> key, label |-> label,
                                     headerColumnId |-> key]))

\* extractTables: one descriptor per table root, in the order of the roots
extractTables(cs) ==
    LET roots == SelectSeq(cs, IsTableRoot) IN
    [r \in 1..Len(roots) |->
        [tableId |-> roots[r].tpath.table,
         columns |-> ColumnsFrom(
                        SelectSeq(cs, LAMBDA c : IsColumnOf(c, roots[r].tpath.table)),
                        1, <<>>)]]

\* a merge that puts the dialog columns in front of the scanned ones
MergedColumnsDialogFirst(columns, labels) ==
    LET existingLabels == {columns[i].label : i \in 1..Len(columns)}
        fresh == SelectSeq(labels, LAMBDA l : l \notin existingLabels)
    IN  [i \in 1..Len(fresh) |->
            [propertyKey |-> fresh[i], label |-> fresh[i],
             headerColumnId |-> ""]] \o columns

\* the columns of one table after the dialog labels t.columns were merged:
\* existingLabels is taken once, before the labels are walked
MergedColumns(columns, labels) ==
    LET existingLabels == {columns[i].label : i \in 1..Len(columns)}
        fresh == SelectSeq(labels, LAMBDA l : l \notin existingLabels)
    IN  columns \o [i \in 1..Len(fresh) |->
                      [propertyKey |-> fresh[i], label |-> fresh[i],
                       headerColumnId |-> ""]]

\* tables.find((x) => x.tableId === t.tableId || ...)
FindTable(tbls, tableId) ==
    FindIndex([i \in 1..Len(tbls) |-> tbls[i].tableId = tableId])

\* p13n.forEach((t) => { ... target.columns = merged })
RECURSIVE MergeP13n(_, _)
MergeP13n(tbls, p) ==
    IF p = <<>> THEN tbls
    ELSE LET hit == FindTable(tbls, Head(p).tableId) IN
         MergeP13n(
            IF hit = 0 THEN tbls
            ELSE [tbls EXCEPT ![hit].columns =
                     MergedColumns(@, Head(p).columns)],
            Tail(p))

\* extract-all.js main: filters, tables, then the merge of the dialog columns
ExtractAll ==
    /\ tool = "none"
    /\ tool' = "extract-all"
    /\ descriptors' = extractFilters(controls)
    /\ tablesOut' = MergeP13n(extractTables(controls), p13n)
    /\ UNCHANGED <<controls, p13n>>
    /\ ReconOnly

ExtractFilters ==
    /\ tool = "none"
    /\ tool' = "extract-filters"
    /\ descriptors' = extractFiltersMain(controls)
    /\ UNCHANGED <<controls, p13n, tablesOut>>
    /\ ReconOnly

\* ids of filter items and FilterField controls, as segment sequences
ItemIds == {<<"v", "P">>, <<"v", "Q">>, <<"P">>}
\* property keys the scanner reports, <<>> for none
PropertyKeys == {<<>>, <<"P">>}

ScanItems == [id : ItemIds, propertyKey : PropertyKeys]

UniqueIds(seq) == \A i, j \in 1..Len(seq) : seq[i].id = seq[j].id => i = j

ItemLists == {its \in UNION {[1..k -> ScanItems] : k \in 0..MaxItems} : UniqueIds(its)}

\* ids of filter bars
BarIds == {<<"fb">>, <<"vh", "fb">>}

\* a filter bar control: every filter item extracted, so filterItemCount is
\* the length of items
FilterBars ==
    {[roleHint |-> "filterbar", type |-> "sap.ui.mdc.FilterBar", id |-> b,
      propertyKey |-> <<>>, items |-> its, filterItemCount |-> Len(its),
      text |-> "", tpath |-> NoTable] :
        its \in ItemLists, b \in BarIds}

\* a standalone sap.ui.mdc.FilterField control
FilterFields ==
    {[roleHint |-> "none", type |-> "sap.ui.mdc.FilterField", id |-> it.id,
      propertyKey |-> it.propertyKey, items |-> <<>>, filterItemCount |-> 0,
      text |-> "", tpath |-> NoTable] :
        it \in ScanItems}

\* the registry holds one element per id
FieldIdsUnique(cs) ==
    \A i, j \in 1..Len(cs) :
        (cs[i].id = cs[j].id /\ cs[i].tpath = cs[j].tpath) => i = j

Scans ==
    {cs \in UNION {[1..k -> FilterBars \cup FilterFields] : k \in 0..MaxControls} :
        FieldIdsUnique(cs)}

ResolveIdle ==
    /\ filters = <<>>
    /\ target = <<>>
    /\ allJson = FALSE
    /\ impl = "none"
    /\ resolved = 0
    /\ outcome = "pending"
    /\ listed = <<>>

InitReconcile ==
    /\ PageIdle
    /\ RecIdle
    /\ CodecIdle
    /\ GoIdle
    /\ RowIdle
    /\ NavIdle
    /\ ScanIdle
    /\ ToolsIdle
    /\ BtnIdle
    /\ DlgIdle
    /\ ActionIdle
    /\ ServerIdle
    /\ ResolveIdle
    /\ ReplIdle
    /\ controls \in Scans
    /\ tool = "none"
    /\ descriptors = <<>>
    /\ p13n = <<>>
    /\ tablesOut = <<>>

NextReconcile == ExtractAll \/ ExtractFilters

SpecReconcile == InitReconcile /\ [][NextReconcile]_vars

\* most controls in a scan of a table
MaxTableControls == 3
\* most column labels read from one settings dialog
MaxLabels == 2

\* the table of the scanned page; "T2" is a control with a settings button
\* that is no line-item table
TableIds == {"T1", "T2"}
\* what follows "::C::" in the id of a control, split at "-"
ColumnAfters == {<<"K">>, <<"K", "innerColumn">>, <<"L">>, <<"">>}
\* the texts of column controls ("" for none) and the labels of the dialog
ColumnTexts == {"", "X"}
DialogLabels == {"K", "X"}

TableRoots ==
    {[roleHint |-> "none", type |-> "sap.ui.mdc.Table", id |-> <<"T1">>,
      propertyKey |-> <<>>, items |-> <<>>, filterItemCount |-> 0, text |-> "",
      tpath |-> [table |-> "T1", rel |-> "root", after |-> <<>>]]}

ColumnControls ==
    {[roleHint |-> "none", type |-> "sap.m.Column", id |-> <<"T1">>,
      propertyKey |-> <<>>, items |-> <<>>, filterItemCount |-> 0, text |-> x,
      tpath |-> [table |-> "T1", rel |-> "C", after |-> a]] :
        a \in ColumnAfters, x \in ColumnTexts}

TableScans ==
    {cs \in UNION {[1..k -> TableRoots \cup ColumnControls] :
                      k \in 0..MaxTableControls} : FieldIdsUnique(cs)}

LabelLists == UNION {[1..k -> DialogLabels] : k \in 0..MaxLabels}

\* one entry per settings button, and the buttons have different ids
P13nLists ==
    {p \in UNION {[1..k -> [tableId : TableIds, columns : LabelLists]] :
                     k \in 0..Cardinality(TableIds)} :
        \A i, j \in 1..Len(p) : p[i].tableId = p[j].tableId => i = j}

InitTables ==
    /\ PageIdle
    /\ RecIdle
    /\ CodecIdle
    /\ GoIdle
    /\ RowIdle
    /\ NavIdle
    /\ ScanIdle
    /\ ToolsIdle
    /\ BtnIdle
    /\ DlgIdle
    /\ ActionIdle
    /\ ServerIdle
    /\ ResolveIdle
    /\ ReplIdle
    /\ controls \in TableScans
    /\ p13n \in P13nLists
    /\ tool = "none"
    /\ descriptors = <<>>
    /\ tablesOut = <<>>

NextTables == ExtractAll

SpecTables == InitTables /\ [][NextTables]_vars

\* the columns table reconciliation finds, before the dialog merge
Scanned == extractTables(controls)

\* C11: after table reconciliation followed by the dialog merge no two
\* columns of a table descriptor share a propertyKey.
C11_ColumnDedup ==
    tool = "extract-all" =>
        \A t \in 1..Len(tablesOut) :
            \A i, j \in 1..Len(tablesOut[t].columns) :
                tablesOut[t].columns[i].propertyKey
                    = tablesOut[t].columns[j].propertyKey => i = j

\* table reconciliation alone keeps the keys unique
C11_ScannedColumnsUnique ==
    \A t \in 1..Len(Scanned) :
        \A i, j \in 1..Len(Scanned[t].columns) :
            Scanned[t].columns[i].propertyKey
                = Scanned[t].columns[j].propertyKey => i = j

\* the labels the settings dialog of table t gave
DialogLabelsOf(t) ==
    UNION {{p13n[e].columns[k] : k \in 1..Len(p13n[e].columns)} :
              e \in {d \in 1..Len(p13n) : p13n[d].tableId = t}}

ScannedLabels(t) == {Scanned[t].columns[i].label : i \in 1..Len(Scanned[t].columns)}

PermutationsOf(cs) ==
    {[i \in 1..Len(cs) |-> cs[f[i]]] :
        f \in {g \in [1..Len(cs) -> 1..Len(cs)] :
                  \A i, j \in 1..Len(cs) : g[i] = g[j] => i = j}}

FilterKeys(ds) == {ds[i].propertyKey : i \in 1..Len(ds)}

ColumnKeys(tbls) ==
    UNION {{<<tbls[t].tableId, tbls[t].columns[i].propertyKey>> :
               i \in 1..Len(tbls[t].columns)} : t \in 1..Len(tbls)}

\* C13: for every permutation of the same scanned control list, filter
\* reconciliation and table reconciliation yield the same set of property
\* keys (filters and, per table, columns).
C13_OrderIndependence ==
    tool = "extract-all" =>
        \A q \in PermutationsOf(controls) :
            /\ FilterKeys(extractFilters(q)) = FilterKeys(descriptors)
            /\ ColumnKeys(extractTables(q)) = ColumnKeys(Scanned)

\* the column keys alone do not depend on the order
C13_ColumnKeysOrderIndependent ==
    \A q \in PermutationsOf(controls) :
        ColumnKeys(extractTables(q)) = ColumnKeys(Scanned)

\* the order of discovery: filter-bar items, then standalone filter fields
\* not already among them
Discovery == UnionItems(controls)

FirstWithKey(k) ==
    CHOOSE i \in 1..Len(Discovery) :
        /\ ItemKey(Discovery[i]) = k
        /\ \A j \in 1..(i - 1) : ItemKey(Discovery[j]) # k

\* C10: the descriptors produced by filter reconciliation contain no two
\* entries with the same propertyKey, and for each key the first-discovered
\* item (filter-bar items before standalone filter fields) is the one kept.
C10_FilterDedup ==
    tool # "none" =>
        /\ \A i, j \in 1..Len(descriptors) :
              descriptors[i].propertyKey = descriptors[j].propertyKey => i = j
        /\ \A i \in 1..Len(descriptors) :
              descriptors[i].filterFieldId
                  = Discovery[FirstWithKey(descriptors[i].propertyKey)].id

\* the same statement of extract-all alone
C10_ExtractAllDedups == tool = "extract-all" => C10_FilterDedup

-----------------------------------------------------------------------------
(* The REPL.  readline emits one 'line' event per input line and does not   *)
(* wait for the async listener of the previous one: a listener runs up to   *)
(* its first await when its line is emitted, and resumes later.             *)

ReplCommands == {"start", "go", "close"}

ContextOpen(c) == c # 0 /\ c \in openCtx

\* where the handler of cmd stands after its synchronous prefix
\*   start: ensureStarted returns at once when state.context is open, else
\*          it awaits launchPersistentContext
\*   go:    state.page.evaluate(...) throws a TypeError on a null page, which
\*          the listener's catch prints
\*   close: await state.context?.close()
FirstPc(cmd) ==
    CASE cmd = "start" -> IF ContextOpen(state.context) THEN "goto" ELSE "launching"
      [] cmd = "go" -> IF state.page = 0 THEN "done" ELSE "evaluating"
      [] cmd = "close" -> "closing"

\* rl.on('line', async (line) => { ... })
OnLine ==
    /\ lines # <<>>
    /\ handlers' = Append(handlers,
                          [cmd |-> Head(lines), pc |-> FirstPc(Head(lines)),
                           ctx |-> state.context])
    /\ lines' = Tail(lines)
    /\ UNCHANGED <<state, openCtx, nCtx>>
    /\ ReplOnly

SetPc(h, pc) == handlers' = [handlers EXCEPT ![h].pc = pc]

\* ensureStarted resumes after launchPersistentContext: state.context and
\* state.page are assigned; the launch may also reject (for instance when
\* the profile directory is in use)
LaunchReturns(h) ==
    /\ handlers[h].pc = "launching"
    /\ \/ /\ nCtx' = nCtx + 1
          /\ openCtx' = openCtx \cup {nCtx + 1}
          /\ state' = [context |-> nCtx + 1, page |-> nCtx + 1]
          /\ SetPc(h, "goto")
       \/ /\ SetPc(h, "done")
          /\ UNCHANGED <<state, openCtx, nCtx>>
    /\ UNCHANGED lines
    /\ ReplOnly

\* cmd_start: await state.page.goto(url), then waitForFunction
GotoReturns(h) ==
    /\ handlers[h].pc = "goto"
    /\ \/ /\ ContextOpen(state.page)
          /\ SetPc(h, "waitInit")
       \/ SetPc(h, "done")
    /\ UNCHANGED <<lines, state, openCtx, nCtx>>
    /\ ReplOnly

WaitInitReturns(h) ==
    /\ handlers[h].pc = "waitInit"
    /\ SetPc(h, "done")
    /\ UNCHANGED <<lines, state, openCtx, nCtx>>
    /\ ReplOnly

\* cmd_go: the click is evaluated, then the waits and the row read run on
\* state.page; each rejects when the page's context is closed
EvaluateReturns(h) ==
    /\ handlers[h].pc = "evaluating"
    /\ \/ /\ ContextOpen(state.page)
          /\ SetPc(h, "waiting")
       \/ SetPc(h, "done")
    /\ UNCHANGED <<lines, state, openCtx, nCtx>>
    /\ ReplOnly

WaitRowsReturns(h) ==
    /\ handlers[h].pc = "waiting"
    /\ SetPc(h, "done")
    /\ UNCHANGED <<lines, state, openCtx, nCtx>>
    /\ ReplOnly

\* cmd_close: try { await state.context?.close() } catch (e) {}
CloseReturns(h) ==
    /\ handlers[h].pc = "closing"
    /\ openCtx' = openCtx \ {handlers[h].ctx}
    /\ SetPc(h, "done")
    /\ UNCHANGED <<lines, state, nCtx>>
    /\ ReplOnly

LineSequences == UNION {[1..k -> ReplCommands] : k \in 0..MaxLines}

InitRepl ==
    /\ PageIdle
    /\ RecIdle
    /\ CodecIdle
    /\ GoIdle
    /\ RowIdle
    /\ NavIdle
    /\ ScanIdle
    /\ ToolsIdle
    /\ BtnIdle
    /\ DlgIdle
    /\ ActionIdle
    /\ ServerIdle
    /\ ResolveIdle
    /\ ReconIdle
    /\ lines \in LineSequences
    /\ handlers = <<>>
    /\ state = [context |-> 0, page |-> 0]
    /\ openCtx = {}
    /\ nCtx = 0

NextRepl ==
    \/ OnLine
    \/ \E h \in 1..Len(handlers) : LaunchReturns(h)
    \/ \E h \in 1..Len(handlers) : GotoReturns(h)
    \/ \E h \in 1..Len(handlers) : WaitInitReturns(h)
    \/ \E h \in 1..Len(handlers) : EvaluateReturns(h)
    \/ \E h \in 1..Len(handlers) : WaitRowsReturns(h)
    \/ \E h \in 1..Len(handlers) : CloseReturns(h)

SpecRepl == InitRepl /\ [][NextRepl]_vars

\* C3: one page is driven sequentially: the handler of a command does not
\* start touching the session (state.context/state.page) while the handler
\* of an earlier command is still in progress.
C3_HandlersDoNotOverlap ==
    [][Len(handlers') > Len(handlers)
         => \A h \in 1..Len(handlers) : handlers[h].pc = "done"]_vars

-----------------------------------------------------------------------------
(* Properties of the metadata file and the filter lookup *)

Ran == impl # "none"

\* C5: when all.json is absent, every command that depends on it fails with
\* the explicit "all.json not found, run extract-all first" error.
C5_MissingMetadataIsExplicit ==
    (Ran /\ ~allJson) => outcome = "all_json_not_found"

\* C6: every lookup miss is a not-found error that enumerates the valid
\* alternatives: a setFilter miss lists all known propertyKeys with labels.
C6_MissListsAlternatives ==
    (Ran /\ outcome = "filter_not_found") => listed = AvailableFilters(filters)

KeyEquals(i) == filters[i].propertyKey = target
LabelEquals(i) == filters[i].label = target

\* C7: resolveFilter match priority: a filter whose propertyKey equals the
\* target is chosen over any filter that matches only by label, and an exact
\* label match over any filter that matches only by substring, whatever the
\* order of the filters in the metadata.
C7_MatchPriority ==
    (impl = "server" /\ allJson) =>
        /\ (\E j \in 1..Len(filters) : KeyEquals(j))
              => (resolved # 0 /\ KeyEquals(resolved))
        /\ ((\A j \in 1..Len(filters) : ~KeyEquals(j))
              /\ (\E j \in 1..Len(filters) : LabelEquals(j)))
              => (resolved # 0 /\ LabelEquals(resolved))

\* the documented normalisation: lowercase, then whitespace, hyphens
\* and underscores stripped, nothing else
Canon(s) == StripChars(toLowerCase(s), {" ", "-", "_"})

\* C8: filter matching is normalised by lowercasing and stripping whitespace,
\* hyphens and underscores, and nothing else: a target that differs from the
\* filter's propertyKey or label only in those resolves to that filter, and
\* strings that differ in any other character are not made equal.
C8_NormalizationIsCaseSpaceHyphenUnderscore ==
    (impl = "server" /\ Len(filters) = 1) =>
        LET f == filters[1] IN
        /\ (Canon(target) = Canon(f.propertyKey)
              \/ (f.label # <<>> /\ Canon(target) = Canon(f.label)))
              => resolved = 1
        /\ \A x \in {f.propertyKey, f.label} :
              normalize(target) = normalize(x) => Canon(target) = Canon(x)

SubstringOfLabel(i) == includes(filters[i].label, target)

\* C9: resolver fallback: when the target equals no propertyKey and no label
\* but is a substring of exactly one filter's label, setFilter resolves to
\* that one descriptor.
C9_SubstringFallback ==
    (Ran /\ allJson) =>
        \A j \in 1..Len(filters) :
            ( /\ \A i \in 1..Len(filters) : ~KeyEquals(i) /\ ~LabelEquals(i)
              /\ SubstringOfLabel(j)
              /\ \A i \in 1..Len(filters) : SubstringOfLabel(i) => i = j )
            => resolved = j


-----------------------------------------------------------------------------
(* Table actions of the generated stdio server: executeAction looks the     *)
(* action up in all.json and clicks its selector; executeTableAction tries  *)
(* a list of toolbar selectors.  Both then classify what the page shows.    *)

\* the surfaces the handlers query after the click
\*   dialog:  the first .sapMDialog.sapMDialogOpen: "form" when it holds a
\*            form region and a footer, "plain" when it lacks one of them
\*   popover: the message popover: "items" when it holds items with text
\*   msgBox:  message-box dialogs: "text" when one of them has text
\*   strip:   inline message strips: "text" when one of them has text
DomStates ==
    [dialog : {"none", "plain", "form"},
     popover : {"none", "empty", "items"},
     msgBox : {"none", "empty", "text"},
     strip : {"none", "empty", "text"},
     objectPage : BOOLEAN,
     formFields : BOOLEAN]

\* the selectors executeTableAction tries, in order
NumSelectors == 5

\* executeAction: the messages collected from the popover and the message boxes
CollectMessages(d) ==
    (IF d.popover = "items" THEN 1 ELSE 0) + (IF d.msgBox = "text" THEN 1 ELSE 0)

\* executeTableAction: the same, and the message strips
CollectTableMessages(d) ==
    CollectMessages(d) + (IF d.strip = "text" THEN 1 ELSE 0)

\* executeAction, after the messages were found empty
DetectScenario(d) ==
    IF d.dialog = "form" THEN "popup_dialog"
    ELSE IF d.objectPage \/ d.formFields THEN "form_opened"
    ELSE "action_completed"

\* executeTableAction: "Check for different scenarios in order of priority"
TableScenario(d) ==
    IF d.dialog = "form" THEN "popup_dialog"
    ELSE IF d.popover # "none" \/ d.msgBox # "none" \/ d.strip # "none"
         THEN "error_messages"
    ELSE IF d.objectPage \/ d.formFields THEN "form_opened"
    ELSE "action_completed"

\* actions.find(a => a.id === action || a.text === action)
FindAction(actions, name) ==
    FindIndex([i \in 1..Len(actions) |->
                  actions[i].id = name \/ actions[i].text = name])

ActionEnds(result, scen) ==
    /\ actPc' = "done"
    /\ actResult' = result
    /\ scenario' = scen

\* executeAction up to `await this.page.click(act.selector)`
ExecuteAction ==
    /\ actTool = "none"
    /\ actTool' = "execute_action"
    /\ IF ~allJson THEN ActionEnds("ENOENT", "")
       ELSE IF tables = <<>> THEN ActionEnds("No table found", "")
       ELSE IF FindAction(tables[1].actions, action) = 0
            THEN ActionEnds("Action not found", "")
       ELSE /\ actPc' = "click"
            /\ UNCHANGED <<actResult, scenario>>
    /\ UNCHANGED <<tables, action, dom, sel, clicks, messages>>
    /\ ActionOnly

\* the click resolves and the page reacts, or the click rejects
ActionClickReturns ==
    /\ actTool = "execute_action"
    /\ actPc = "click"
    /\ \/ /\ dom' \in DomStates
          /\ clicks' = clicks + 1
          /\ actPc' = "wait"
          /\ UNCHANGED <<actResult, scenario>>
       \/ /\ ActionEnds("page_error", "")
          /\ UNCHANGED <<dom, clicks>>
    /\ UNCHANGED <<tables, action, actTool, sel, messages>>
    /\ ActionOnly

\* the bounded wait: try { await Promise.race([...]) } catch (e) { /* ignore */ }
ActionWaitReturns ==
    /\ actTool = "execute_action"
    /\ actPc = "wait"
    /\ actPc' = "collect"
    /\ UNCHANGED <<tables, action, dom, actTool, sel, clicks, messages,
                   scenario, actResult>>
    /\ ActionOnly

\* the messages are collected; when there are any the handler returns
\* scenario error_messages, before it looks for a dialog
ActionCollectReturns ==
    /\ actTool = "execute_action"
    /\ actPc = "collect"
    /\ \/ /\ messages' = CollectMessages(dom)
          /\ IF messages' > 0
             THEN ActionEnds("returned", "error_messages")
             ELSE /\ actPc' = "detect"
                  /\ UNCHANGED <<actResult, scenario>>
       \/ /\ ActionEnds("page_error", "")
          /\ UNCHANGED messages
    /\ UNCHANGED <<tables, action, dom, actTool, sel, clicks>>
    /\ ActionOnly

\* the scenario is detected; popup_dialog and form_opened read the fields next
ActionDetectReturns ==
    /\ actTool = "execute_action"
    /\ actPc = "detect"
    /\ \/ LET t == DetectScenario(dom) IN
          IF t = "action_completed"
          THEN ActionEnds("returned", t)
          ELSE /\ actPc' = "fields"
               /\ scenario' = t
               /\ UNCHANGED actResult
       \/ ActionEnds("page_error", "")
    /\ UNCHANGED <<tables, action, dom, actTool, sel, clicks, messages>>
    /\ ActionOnly

ActionFieldsReturns ==
    /\ actTool = "execute_action"
    /\ actPc = "fields"
    /\ \/ ActionEnds("returned", scenario)
       \/ ActionEnds("page_error", "")
    /\ UNCHANGED <<tables, action, dom, actTool, sel, clicks, messages>>
    /\ ActionOnly

\* executeTableAction up to the first `await this.page.$(sel)`
ExecuteTableAction ==
    /\ actTool = "none"
    /\ actTool' = "execute_table_action"
    /\ sel' = 1
    /\ actPc' = "query"
    /\ UNCHANGED <<tables, action, dom, clicks, messages, scenario, actResult>>
    /\ ActionOnly

\* the loop moves to the next selector, or past the last one returns
\* 'Action not found on toolbar'
NextSelector ==
    IF sel < NumSelectors
    THEN /\ sel' = sel + 1
         /\ actPc' = "query"
         /\ scenario' = ""
         /\ UNCHANGED actResult
    ELSE /\ ActionEnds("not_on_toolbar", "")
         /\ UNCHANGED sel

\* page.$(sel): an element, null, or a rejection the catch swallows
QueryReturns ==
    /\ actTool = "execute_table_action"
    /\ actPc = "query"
    /\ \/ /\ actPc' = "click"
          /\ UNCHANGED <<sel, scenario, actResult>>
       \/ NextSelector
    /\ UNCHANGED <<tables, action, dom, actTool, clicks, messages>>
    /\ ActionOnly

\* el.click(): the page reacts, or the rejection is swallowed
TableClickReturns ==
    /\ actTool = "execute_table_action"
    /\ actPc = "click"
    /\ \/ /\ dom' \in DomStates
          /\ clicks' = clicks + 1
          /\ actPc' = "detect"
          /\ UNCHANGED <<sel, scenario, actResult>>
       \/ /\ NextSelector
          /\ UNCHANGED <<dom, clicks>>
    /\ UNCHANGED <<tables, action, actTool, messages>>
    /\ ActionOnly

\* waitForTimeout(500), then the scenario is evaluated; a rejection of
\* either is swallowed and the loop goes on with the next selector
TableDetectReturns ==
    /\ actTool = "execute_table_action"
    /\ actPc = "detect"
    /\ \/ LET t == TableScenario(dom) IN
          IF t = "action_completed"
          THEN /\ ActionEnds("returned", t)
               /\ UNCHANGED sel
          ELSE /\ actPc' = "read"
               /\ scenario' = t
               /\ UNCHANGED <<sel, actResult>>
       \/ NextSelector
    /\ UNCHANGED <<tables, action, dom, actTool, clicks, messages>>
    /\ ActionOnly

\* the fields or the messages of the scenario are read
TableReadReturns ==
    /\ actTool = "execute_table_action"
    /\ actPc = "read"
    /\ \/ /\ ActionEnds("returned", scenario)
          /\ messages' = IF scenario = "error_messages"
                         THEN CollectTableMessages(dom) ELSE messages
          /\ UNCHANGED sel
       \/ /\ NextSelector
          /\ UNCHANGED messages
    /\ UNCHANGED <<tables, action, dom, actTool, clicks>>
    /\ ActionOnly

\* the selectors submitForm tries, in order
NumSaveSelectors == 8

\* submitForm up to the first `await this.page.$(selector)`
submitForm ==
    /\ actTool = "none"
    /\ actTool' = "submit_form"
    /\ sel' = 1
    /\ actPc' = "query"
    /\ UNCHANGED <<tables, action, dom, clicks, messages, scenario, actResult>>
    /\ ActionOnly

\* submitForm's loop moves to the next selector, or past the last one
\* throws 'No submit button found'
NextSaveSelector ==
    IF sel < NumSaveSelectors
    THEN /\ sel' = sel + 1
         /\ actPc' = "query"
         /\ UNCHANGED <<actResult, scenario>>
    ELSE /\ ActionEnds("no_submit_button", "")
         /\ UNCHANGED sel

\* page.$(selector): a button, null, or a rejection the catch swallows
SaveQueryReturns ==
    /\ actTool = "submit_form"
    /\ actPc = "query"
    /\ \/ /\ actPc' = "click"
          /\ UNCHANGED <<sel, scenario, actResult>>
       \/ NextSaveSelector
    /\ UNCHANGED <<tables, action, dom, actTool, clicks, messages>>
    /\ ActionOnly

\* what submitForm can tell apart after its click: it queries the message
\* popover and nothing else
SaveDomStates ==
    {d \in DomStates : [d EXCEPT !.popover = "none"] = NoSurface}

\* button.click(): the page reacts, or the rejection is swallowed
SaveClickReturns ==
    /\ actTool = "submit_form"
    /\ actPc = "click"
    /\ \/ /\ dom' \in SaveDomStates
          /\ clicks' = clicks + 1
          /\ actPc' = "collect"
          /\ UNCHANGED <<sel, scenario, actResult>>
       \/ /\ NextSaveSelector
          /\ UNCHANGED <<dom, clicks>>
    /\ UNCHANGED <<tables, action, actTool, messages>>
    /\ ActionOnly

\* waitForTimeout(500) and the evaluation of the popover's items: the
\* handler returns with or without messages; a rejection of either is
\* swallowed by the same catch and the loop goes on with the next selector
SaveCollectReturns ==
    /\ actTool = "submit_form"
    /\ actPc = "collect"
    /\ \/ /\ messages' = (IF dom.popover = "items" THEN 1 ELSE 0)
          /\ ActionEnds(IF messages' > 0 THEN "messages" ELSE "submitted", "")
          /\ UNCHANGED sel
       \/ /\ NextSaveSelector
          /\ UNCHANGED messages
    /\ UNCHANGED <<tables, action, dom, actTool, clicks>>
    /\ ActionOnly

\* all.tables as extract-all writes it, and the names a caller may pass
TablePool ==
    {<<>>,
     <<[actions |-> <<>>]>>,
     <<[actions |-> <<[id |-> "StandardAction::Create", text |-> "Create"]>>]>>}

ActionNames == {"Create", "StandardAction::Create", "Delete"}

InitAction ==
    /\ ReconIdle
    /\ ReplIdle
    /\ ServerIdle
    /\ PageIdle
    /\ RecIdle
    /\ CodecIdle
    /\ GoIdle
    /\ RowIdle
    /\ NavIdle
    /\ ScanIdle
    /\ ToolsIdle
    /\ BtnIdle
    /\ DlgIdle
    /\ allJson \in BOOLEAN
    /\ filters = <<>>
    /\ target = <<>>
    /\ impl = "none"
    /\ resolved = 0
    /\ outcome = "pending"
    /\ listed = <<>>
    /\ tables \in (IF allJson THEN TablePool ELSE {<<>>})
    /\ action \in ActionNames
    /\ dom = NoSurface
    /\ actTool = "none"
    /\ actPc = "idle"
    /\ sel = 0
    /\ clicks = 0
    /\ messages = 0
    /\ scenario = ""
    /\ actResult = "pending"

NextAction ==
    \/ ExecuteAction
    \/ ActionClickReturns
    \/ ActionWaitReturns
    \/ ActionCollectReturns
    \/ ActionDetectReturns
    \/ ActionFieldsReturns
    \/ ExecuteTableAction
    \/ QueryReturns
    \/ TableClickReturns
    \/ TableDetectReturns
    \/ TableReadReturns
    \/ submitForm
    \/ SaveQueryReturns
    \/ SaveClickReturns
    \/ SaveCollectReturns

SpecAction == InitAction /\ [][NextAction]_vars

\* C1: whenever a table action returned and the page after its click shows
\* both an open dialog with a form region and a footer and a message popover
\* with message items, the returned scenario is popup_dialog.
C1_PopupDialogOutranksMessages ==
    (actResult = "returned" /\ clicks > 0
        /\ dom.dialog = "form" /\ dom.popover = "items")
    => scenario = "popup_dialog"

\* executeTableAction alone keeps the priority
C1_TableActionPriority ==
    actTool = "execute_table_action" => C1_PopupDialogOutranksMessages

\* the page shows a message popover, a message-box dialog or a message strip
HasErrorSurface(d) ==
    d.popover # "none" \/ d.msgBox # "none" \/ d.strip # "none"

\* C21: error surfaces outrank form detection: a table action that
\* returned, and whose page after the click shows a message popover, a
\* message-box dialog or a message strip and no dialog with form and footer,
\* has scenario error_messages, also with an object page or form fields
\* present; form_opened is returned only with no such dialog and no error
\* surface.
C21_ErrorSurfacesOutrankForms ==
    (actResult = "returned" /\ clicks > 0) =>
        /\ (dom.dialog # "form" /\ HasErrorSurface(dom))
              => scenario = "error_messages"
        /\ scenario = "form_opened"
              => (dom.dialog # "form" /\ ~HasErrorSurface(dom))

\* C24: a state-changing command clicks at most once per invocation:
\* submitForm and executeTableAction click at most one button per call, also
\* when the settle wait, the message collection or the scenario detection
\* after the click throws.
C24_AtMostOneClick ==
    actTool \in {"submit_form", "execute_table_action"} => clicks <= 1

\* executeAction, which has no selector loop, clicks once at most
C24_ExecuteActionClicksOnce == actTool = "execute_action" => clicks <= 1

\* executeTableAction alone ranks every error surface above the forms
C21_TableActionRanksSurfaces ==
    actTool = "execute_table_action" => C21_ErrorSurfacesOutrankForms

-----------------------------------------------------------------------------
(* The session of a generated server.  Tool calls are async handlers: one   *)
(* runs up to its next await in a step and resumes when the awaited         *)
(* operation settles; the transport hands a new call to the server while    *)
(* earlier ones are pending.  A browser or a context is named after the     *)
(* call and the navigation attempt that created it; a context handle and a  *)
(* page handle carry their context and its browser.                         *)

\* most tool calls a server receives
MaxCalls == 3
\* most tool calls pending at once
MaxPending == 2
\* most browser disconnections the environment causes
MaxDisconnects == 1

\* the tools modelled: the starter, a tool that drives the page, the closer,
\* and a name neither switch has a case for
Tools == {"start_app", "press_go", "close_app", "no_such_tool"}

\* a page can be driven while the browser of its context is alive;
\* page.isClosed() is the negation
PageUsable(p) == p.b \in alive

\* the name of what call h creates in its current run of ensureBrowserStarted
NewId(h) == 2 * (h - 1) + calls[h].gotos + 1

\* the call ends with an error: the stdio handler's catch turns it into a
\* content payload, the HTTP handler has no catch
Fail(c, why) ==
    [c EXCEPT !.pc = "done", !.result = why, !.obj = Null,
              !.delivery = IF flavor = "stdio" THEN "content" ELSE "exception"]

Finish(c, what) ==
    [c EXCEPT !.pc = "done", !.result = what, !.obj = Null,
              !.delivery = "content"]

\* await this.page.goto(url): a null page is a TypeError (only the HTTP
\* server gets here with one: its ensureBrowserStarted returns at once when
\* this.browser is set)
Navigate(c, pg) ==
    IF pg = Null THEN Fail(c, "type_error")
    ELSE [c EXCEPT !.pc = "goto", !.obj = pg, !.gotos = @ + 1]

\* stdio ensureBrowserStarted, third check: if (!this.page) newPage()
CheckPage(c, cx, pg) ==
    IF pg = Null THEN [c EXCEPT !.pc = "newPage", !.obj = cx]
    ELSE Navigate(c, pg)

\* stdio ensureBrowserStarted, second check: if (!this.context) newContext()
CheckContext(c, b, cx, pg) ==
    IF cx = Null THEN [c EXCEPT !.pc = "newContext", !.obj = [cx |-> 0, b |-> b]]
    ELSE CheckPage(c, cx, pg)

\* ensureBrowserStarted from its start, followed by startApp's navigation
\*   stdio: launch when this.browser is null or not connected
\*   http:  launch, newContext and newPage only when this.browser is null
ensureBrowserStarted(c, b, cx, pg, al) ==
    IF flavor = "stdio"
    THEN IF b = 0 \/ b \notin al
         THEN [c EXCEPT !.pc = "launch", !.obj = Null]
         ELSE CheckContext(c, b, cx, pg)
    ELSE IF b = 0
         THEN [c EXCEPT !.pc = "launch", !.obj = Null]
         ELSE Navigate(c, pg)

\* what follows closeApp: the close_app tool returns 'Application closed',
\* startApp's recovery goes on with ensureBrowserStarted
AfterClose(c, b, cx, pg, al) ==
    IF c.tool = "close_app" THEN Finish(c, "closed")
    ELSE ensureBrowserStarted(c, b, cx, pg, al)

\* closeApp: if (this.browser) { await this.browser.close(); ... }
closeApp(c, b, cx, pg, al) ==
    IF b # 0
    THEN [c EXCEPT !.pc = "close", !.obj = [cx |-> 0, b |-> b], !.closes = @ + 1]
    ELSE AfterClose(c, b, cx, pg, al)

NewCall(name) ==
    [tool |-> name, pc |-> "received", obj |-> Null, gotos |-> 0, closes |-> 0,
     uninit |-> ~PageUsable(page), result |-> "pending", delivery |-> "none"]

\* the call handler up to its first await
\*   stdio: the guard rejects every tool but start_app on a null or closed page
\*   http:  handleToolCall dispatches without a guard; pressGo on a null
\*          page catches the TypeError of each selector and then throws
\*          'Go button not found'
Dispatch(name) ==
    IF flavor = "stdio" /\ name # "start_app" /\ ~PageUsable(page)
    THEN Fail(NewCall(name), "not_initialized")
    ELSE CASE name = "start_app" ->
                ensureBrowserStarted(NewCall(name), browser, context, page, alive)
           [] name = "press_go" ->
                IF page = Null THEN Fail(NewCall(name), "go_button_not_found")
                ELSE [NewCall(name) EXCEPT !.pc = "pageOp", !.obj = page]
           [] name = "close_app" ->
                closeApp(NewCall(name), browser, context, page, alive)
           [] OTHER -> Fail(NewCall(name), "unknown_tool")

Pending == {h \in 1..Len(calls) : calls[h].pc # "done"}

CallTool ==
    /\ Len(calls) < MaxCalls
    /\ Cardinality(Pending) < MaxPending
    /\ \E name \in Tools : calls' = Append(calls, Dispatch(name))
    /\ UNCHANGED <<flavor, browser, context, page, alive, nDisconnects>>
    /\ ServerOnly

\* chromium.launch() settles: this.browser is assigned, or the launch rejects
BrowserLaunched(h) ==
    /\ calls[h].pc = "launch"
    /\ \/ LET b == NewId(h) IN
          /\ alive' = alive \cup {b}
          /\ browser' = b
          /\ calls' = [calls EXCEPT ![h] =
                IF flavor = "stdio"
                THEN CheckContext(calls[h], b, context, page)
                ELSE [calls[h] EXCEPT !.pc = "newContext",
                                      !.obj = [cx |-> 0, b |-> b]]]
       \/ /\ calls' = [calls EXCEPT ![h] = Fail(calls[h], "launch_failed")]
          /\ UNCHANGED <<alive, browser>>
    /\ UNCHANGED <<flavor, context, page, nDisconnects>>
    /\ ServerOnly

\* browser.newContext() settles: this.context is assigned, or it rejects
\* because the browser is gone
ContextCreated(h) ==
    /\ calls[h].pc = "newContext"
    /\ IF calls[h].obj.b \in alive
       THEN LET cx == [cx |-> NewId(h), b |-> calls[h].obj.b] IN
            /\ context' = cx
            /\ calls' = [calls EXCEPT ![h] =
                  IF flavor = "stdio"
                  THEN CheckPage(calls[h], cx, page)
                  ELSE [calls[h] EXCEPT !.pc = "newPage", !.obj = cx]]
       ELSE /\ calls' = [calls EXCEPT ![h] = Fail(calls[h], "context_failed")]
            /\ UNCHANGED context
    /\ UNCHANGED <<flavor, browser, page, alive, nDisconnects>>
    /\ ServerOnly

\* context.newPage() settles: this.page is assigned and startApp navigates,
\* or it rejects because the browser is gone
PageCreated(h) ==
    /\ calls[h].pc = "newPage"
    /\ IF calls[h].obj.b \in alive
       THEN /\ page' = calls[h].obj
            /\ calls' = [calls EXCEPT ![h] = Navigate(calls[h], calls[h].obj)]
       ELSE /\ calls' = [calls EXCEPT ![h] = Fail(calls[h], "page_failed")]
            /\ UNCHANGED page
    /\ UNCHANGED <<flavor, browser, context, alive, nDisconnects>>
    /\ ServerOnly

\* page.goto() settles.  stdio: the first rejection is caught, closeApp and
\* ensureBrowserStarted run and the navigation is repeated outside the try.
\* http: a rejection leaves startApp.
NavigationReturns(h) ==
    /\ calls[h].pc = "goto"
    /\ \/ /\ PageUsable(calls[h].obj)
          /\ calls' = [calls EXCEPT ![h].pc = "waitInit"]
       \/ calls' = [calls EXCEPT ![h] =
             IF flavor = "stdio" /\ calls[h].gotos = 1
             THEN closeApp(calls[h], browser, context, page, alive)
             ELSE Fail(calls[h], "navigation_failed")]
    /\ UNCHANGED <<flavor, browser, context, page, alive, nDisconnects>>
    /\ ServerOnly

\* the waits for the UI5 core after the navigation
CoreInitReturns(h) ==
    /\ calls[h].pc = "waitInit"
    /\ \/ /\ PageUsable(calls[h].obj)
          /\ calls' = [calls EXCEPT ![h] = Finish(calls[h], "started")]
       \/ calls' = [calls EXCEPT ![h] = Fail(calls[h], "timeout")]
    /\ UNCHANGED <<flavor, browser, context, page, alive, nDisconnects>>
    /\ ServerOnly

\* browser.close() settles: closeApp nulls the three fields
BrowserClosed(h) ==
    /\ calls[h].pc = "close"
    /\ alive' = alive \ {calls[h].obj.b}
    /\ browser' = 0
    /\ context' = Null
    /\ page' = Null
    /\ calls' = [calls EXCEPT ![h] = AfterClose(calls[h], 0, Null, Null, alive')]
    /\ UNCHANGED <<flavor, nDisconnects>>
    /\ ServerOnly

\* a tool that drives the page settles
PageOpReturns(h) ==
    /\ calls[h].pc = "pageOp"
    /\ \/ /\ PageUsable(calls[h].obj)
          /\ calls' = [calls EXCEPT ![h] = Finish(calls[h], "ok")]
       \/ calls' = [calls EXCEPT ![h] = Fail(calls[h], "page_error")]
    /\ UNCHANGED <<flavor, browser, context, page, alive, nDisconnects>>
    /\ ServerOnly

\* the browsers the server's fields lead to
Referenced == {browser, context.b, page.b}

\* a browser the server refers to crashes, or the user closes its window
BrowserDisconnected ==
    /\ nDisconnects < MaxDisconnects
    /\ nDisconnects' = nDisconnects + 1
    /\ \E b \in alive \cap Referenced : alive' = alive \ {b}
    /\ UNCHANGED <<flavor, browser, context, page, calls>>
    /\ ServerOnly

InitServer ==
    /\ ResolveIdle
    /\ ReconIdle
    /\ ReplIdle
    /\ ActionIdle
    /\ PageIdle
    /\ RecIdle
    /\ CodecIdle
    /\ GoIdle
    /\ RowIdle
    /\ NavIdle
    /\ ScanIdle
    /\ ToolsIdle
    /\ BtnIdle
    /\ DlgIdle
    /\ flavor \in {"stdio", "http"}
    /\ Constructed

NextServer ==
    \/ CallTool
    \/ \E h \in 1..Len(calls) : BrowserLaunched(h)
    \/ \E h \in 1..Len(calls) : ContextCreated(h)
    \/ \E h \in 1..Len(calls) : PageCreated(h)
    \/ \E h \in 1..Len(calls) : NavigationReturns(h)
    \/ \E h \in 1..Len(calls) : CoreInitReturns(h)
    \/ \E h \in 1..Len(calls) : BrowserClosed(h)
    \/ \E h \in 1..Len(calls) : PageOpReturns(h)
    \/ BrowserDisconnected

SpecServer == InitServer /\ [][NextServer]_vars

\* C2: a startApp whose navigation fails tears the session down, recreates
\* it and navigates once more: no call navigates more than twice, and a call
\* that ends with the navigation's failure has navigated twice.
C2_NavigationRetriedOnce ==
    \A h \in 1..Len(calls) :
        calls[h].tool = "start_app" =>
            /\ calls[h].gotos <= 2
            /\ calls[h].result = "navigation_failed" => calls[h].gotos = 2

\* the stdio server alone retries once
C2_StdioRetriesOnce == flavor = "stdio" => C2_NavigationRetriedOnce

\* the errors of a tool that found no page to work on
MissingPageErrors == {"not_initialized", "go_button_not_found"}

\* C4: a tool other than start_app that is called while the page is not
\* initialized (never started, or closed) does not fail for want of a page:
\* the server starts the app on demand and performs the tool.
C4_StartsAppOnDemand ==
    \A h \in 1..Len(calls) :
        (calls[h].tool # "start_app" /\ calls[h].uninit /\ calls[h].pc = "done")
            => calls[h].result \notin MissingPageErrors

\* C15: closing the session succeeds without an error whether or not a
\* session exists: every close_app call that has ended returned
\* 'Application closed', and the server is left closed.
C15_CloseAlwaysSucceeds ==
    \A h \in 1..Len(calls) :
        (calls[h].tool = "close_app" /\ calls[h].pc = "done")
            => calls[h].result = "closed"

\* closeApp itself is delete-if-exists: the HTTP server, which has no guard
\* before it, closes without an error with or without a session
C15_HttpCloseSucceeds == flavor = "http" => C15_CloseAlwaysSucceeds

\* C16: every tool call returns a structured payload: whatever fails inside
\* a tool, the call handler returns a content payload and the exception
\* does not leave the handler.
C16_AlwaysContentPayload ==
    \A h \in 1..Len(calls) :
        calls[h].pc = "done" => calls[h].delivery = "content"

\* the stdio handler catches every error of a tool
C16_StdioAlwaysContent == flavor = "stdio" => C16_AlwaysContentPayload

\* call h leaves ensureBrowserStarted without an error in this step: its
\* next await is the navigation
EnsureReturns(h) ==
    /\ h <= Len(calls)
    /\ calls[h].pc # "goto"
    /\ calls'[h].pc = "goto"

\* startApp of call h returns successfully in this step
StartReturns(h) ==
    /\ h <= Len(calls)
    /\ calls[h].result # "started"
    /\ calls'[h].result = "started"

\* C25: no stale handles after a (re)start in the stdio server: whenever
\* ensureBrowserStarted returns without throwing, this.page belongs to
\* this.context and this.context to the current this.browser, also after
\* the previous browser was disconnected; and whenever startApp returns
\* successfully, the page it navigated is a page of the live current
\* browser.
C25_NoStaleHandles ==
    [][flavor = "stdio" =>
          \A h \in 1..Len(calls') :
              /\ EnsureReturns(h) =>
                    /\ page' # Null
                    /\ page' = context'
                    /\ context'.b = browser'
              /\ StartReturns(h) =>
                    /\ calls[h].obj.b \in alive'
                    /\ calls[h].obj.b = browser']_vars

\* a startApp that returns successfully has navigated a page of a live
\* browser
C25_StartedPageIsLive ==
    [][\A h \in 1..Len(calls') :
          StartReturns(h) => calls[h].obj.b \in alive']_vars

\* the HTTP server's ensureBrowserStarted returns for call h in this step:
\* startApp goes on to page.goto, which is pending or has thrown the
\* TypeError of a null page
HttpEnsureReturns(h) ==
    /\ calls'[h].tool = "start_app"
    /\ \/ /\ calls'[h].pc = "goto"
          /\ h <= Len(calls) => calls[h].pc # "goto"
       \/ /\ calls'[h].result = "type_error"
          /\ h <= Len(calls) => calls[h].result # "type_error"

\* C27: in the HTTP server, whenever ensureBrowserStarted returns without
\* throwing, this.browser, this.context and this.page are all non-null,
\* also on a call that follows a call which failed part-way.
C27_HttpHandlesAllSet ==
    [][flavor = "http" =>
          \A h \in 1..Len(calls') :
              HttpEnsureReturns(h) =>
                  /\ browser' # 0
                  /\ context' # Null
                  /\ page' # Null]_vars

\* the browsers that were launched and not closed, and that no field of the
\* server and no pending call leads to
Orphans ==
    {b \in alive : b \notin Referenced
                   /\ \A h \in Pending : calls[h].obj.b # b}

\* C19: at most one browser is owned: whatever the interleaving of the tool
\* calls, no launched browser is left both unreferenced and unclosed.
C19_SingleBrowser == Orphans = {}

\* ---------------------------------------------------------------------------
\* Row extraction (getRows): REPL, generated server, CLI
\* ---------------------------------------------------------------------------

MaxNodes == 2

\* the child nodes of a td: direct text nodes and span elements, in document
\* order; a text is a sequence of characters
NodeTexts == {<<>>, <<" ">>, <<"1">>, <<"U">>}
Nodes == [kind : {"text", "span"}, text : NodeTexts]

RECURSIVE Concat(_)
Concat(ts) ==
    IF ts = <<>> THEN <<>> ELSE Head(ts) \o Concat(Tail(ts))

\* Node.textContent of the td: the text of every descendant, concatenated
textContent(nodes) ==
    Concat([i \in 1..Len(nodes) |-> nodes[i].text])

RECURSIVE TrimStart(_)
TrimStart(t) ==
    IF t # <<>> /\ Head(t) = " " THEN TrimStart(Tail(t)) ELSE t

RECURSIVE TrimEnd(_)
TrimEnd(t) ==
    IF t # <<>> /\ t[Len(t)] = " "
    THEN TrimEnd(SubSeq(t, 1, Len(t) - 1))
    ELSE t

\* String.prototype.trim
trim(t) == TrimEnd(TrimStart(t))

\* td.querySelectorAll('span')
Spans(nodes) == SelectSeq(nodes, LAMBDA n : n.kind = "span")

\* Array.prototype.join(' ')
RECURSIVE JoinSpace(_)
JoinSpace(ts) ==
    IF ts = <<>> THEN <<>>
    ELSE IF Len(ts) = 1 THEN Head(ts)
    ELSE Head(ts) \o <<" ">> \o JoinSpace(Tail(ts))

\* spans.map(s => s.textContent || '').join(' ').trim()
SpanJoin(nodes) ==
    LET spans == Spans(nodes)
    IN trim(JoinSpace([i \in 1..Len(spans) |-> spans[i].text]))

\* let text = (td.textContent || '').trim(); if (!text) { ...spans... }
CellTextWithFallback(nodes) ==
    LET text == trim(textContent(nodes))
    IN IF text = <<>> THEN SpanJoin(nodes) ELSE text

\* const text = (td.textContent || '').trim();
CellTextPlain(nodes) == trim(textContent(nodes))

\* the REPL and the server look the header row up as
\* <base>-innerTable-tblHeader, the CLI as <base>-tblHeader
HeaderRowIds == {"innerTable-tblHeader", "tblHeader", "none"}

\* columnMap[colId] || colId, with columnMap[hid] = key || hid
ColumnKey(c, found) ==
    IF found /\ c.mapped /\ c.key # "" THEN c.key ELSE c.colId

\* if (key) rowObj[key] = text, for each td of the row
RowObject(found, withFallback) ==
    LET kept == SelectSeq(cells, LAMBDA c : ColumnKey(c, found) # "")
    IN [i \in 1..Len(kept) |->
            [key |-> ColumnKey(kept[i], found),
             colId |-> kept[i].colId,
             text |-> IF withFallback
                      THEN CellTextWithFallback(kept[i].nodes)
                      ELSE CellTextPlain(kept[i].nodes)]]

\* REPL "rows"
cmd_getRows ==
    /\ reader = "none"
    /\ reader' = "repl"
    /\ rowObj' = RowObject(hasHeader = "innerTable-tblHeader", TRUE)
    /\ UNCHANGED <<cells, hasHeader>>
    /\ PageOnly

\* server tool get_table_rows
getTableRows ==
    /\ reader = "none"
    /\ reader' = "server"
    /\ rowObj' = RowObject(hasHeader = "innerTable-tblHeader", TRUE)
    /\ UNCHANGED <<cells, hasHeader>>
    /\ PageOnly

\* CLI "rows"
getRows ==
    /\ reader = "none"
    /\ reader' = "cli"
    /\ rowObj' = RowObject(hasHeader = "tblHeader", FALSE)
    /\ UNCHANGED <<cells, hasHeader>>
    /\ PageOnly

NodeLists == UNION {[1..n -> Nodes] : n \in 0..MaxNodes}

RowCells ==
    [colId : {"", "c1"}, key : {"", "Amount"}, mapped : BOOLEAN,
     nodes : NodeLists]

InitRows ==
    /\ ResolveIdle
    /\ ReconIdle
    /\ ReplIdle
    /\ ActionIdle
    /\ ServerIdle
    /\ RecIdle
    /\ CodecIdle
    /\ GoIdle
    /\ RowIdle
    /\ NavIdle
    /\ ScanIdle
    /\ ToolsIdle
    /\ BtnIdle
    /\ DlgIdle
    /\ \E c \in RowCells : cells = <<c>>
    /\ hasHeader \in HeaderRowIds
    /\ reader = "none"
    /\ rowObj = <<>>

NextRows == cmd_getRows \/ getTableRows \/ getRows

SpecRows == InitRows /\ [][NextRows]_vars

\* the texts of the direct text nodes of a cell
DirectText(nodes) ==
    LET direct == SelectSeq(nodes, LAMBDA n : n.kind = "text")
    IN trim(Concat([i \in 1..Len(direct) |-> direct[i].text]))

\* the nested inline elements of a cell that bear text
TextSpans(nodes) ==
    SelectSeq(Spans(nodes), LAMBDA n : trim(n.text) # <<>>)

\* C14: in every getRows implementation, a data cell with empty direct text
\* and one or more nested inline elements bearing text yields the
\* space-joined concatenation of the nested texts.
C14_CompositeCellFallback ==
    reader # "none" =>
        \A i \in 1..Len(rowObj) :
            \A j \in 1..Len(cells) :
                (/\ cells[j].colId = rowObj[i].colId
                 /\ DirectText(cells[j].nodes) = <<>>
                 /\ TextSpans(cells[j].nodes) # <<>>)
                => rowObj[i].text = SpanJoin(cells[j].nodes)

\* what the three implementations do share: a cell holding one text-bearing
\* span and no direct text yields that span's trimmed text
C14_SingleSpanCell ==
    reader # "none" =>
        \A i \in 1..Len(rowObj) :
            \A j \in 1..Len(cells) :
                (/\ cells[j].colId = rowObj[i].colId
                 /\ DirectText(cells[j].nodes) = <<>>
                 /\ Len(TextSpans(cells[j].nodes)) = 1)
                => rowObj[i].text = trim(TextSpans(cells[j].nodes)[1].text)


\* ---------------------------------------------------------------------------
\* The flow recorder of the stdio server
\* ---------------------------------------------------------------------------

\* most tool calls answered
MaxHistory == 4

\* tools that the recorder would record: they drive the page
RecordableTools == {"press_go", "get_table_rows"}

\* what the call handler answers; steps is the 'steps' array of the payload
Answer(name, res, stp) == [tool |-> name, result |-> res, steps |-> stp]

\* the guard of the call handler: every tool but start_app needs a page
Guarded == ~PageUsable(page)

\* case 'record_flow_start': recordFlowStart()
recordFlowStart ==
    /\ Len(history) < MaxHistory
    /\ IF Guarded
       THEN /\ history' =
                Append(history, Answer("record_flow_start", "not_initialized", <<>>))
            /\ UNCHANGED flowRecorder
       ELSE /\ flowRecorder' = [isRecording |-> TRUE, steps |-> <<>>]
            /\ history' = Append(history, Answer("record_flow_start", "ok", <<>>))
    /\ RecOnly

\* case 'record_flow_stop': recordFlowStop()
recordFlowStop ==
    /\ Len(history) < MaxHistory
    /\ IF Guarded
       THEN /\ history' =
                Append(history, Answer("record_flow_stop", "not_initialized", <<>>))
            /\ UNCHANGED flowRecorder
       ELSE /\ flowRecorder' = [isRecording |-> FALSE, steps |-> <<>>]
            /\ history' =
                Append(history, Answer("record_flow_stop", "ok", flowRecorder.steps))
    /\ RecOnly

\* any other case of the switch: the tool runs and succeeds or throws; no
\* case and no tool method touches this.flowRecorder
OtherTool ==
    /\ Len(history) < MaxHistory
    /\ \E name \in RecordableTools :
          IF Guarded
          THEN history' = Append(history, Answer(name, "not_initialized", <<>>))
          ELSE \E res \in {"ok", "error"} :
                  history' = Append(history, Answer(name, res, <<>>))
    /\ UNCHANGED flowRecorder
    /\ RecOnly

\* a started session: the browser, its context and its page
Started ==
    /\ browser = 1
    /\ context = [cx |-> 1, b |-> 1]
    /\ page = [cx |-> 1, b |-> 1]
    /\ alive = {1}
    /\ nDisconnects = 0
    /\ calls = <<>>

InitRecorder ==
    /\ ResolveIdle
    /\ ReconIdle
    /\ ReplIdle
    /\ ActionIdle
    /\ PageIdle
    /\ RecIdle
    /\ CodecIdle
    /\ GoIdle
    /\ RowIdle
    /\ NavIdle
    /\ ScanIdle
    /\ ToolsIdle
    /\ BtnIdle
    /\ DlgIdle
    /\ flavor = "stdio"
    /\ Constructed \/ Started

NextRecorder == recordFlowStart \/ recordFlowStop \/ OtherTool

SpecRecorder == InitRecorder /\ [][NextRecorder]_vars

\* the last successful record_flow_start before call i, 0 if none
LastStart(i) ==
    LET starts == {j \in 1..(i - 1) :
                      /\ history[j].tool = "record_flow_start"
                      /\ history[j].result = "ok"}
    IN IF starts = {} THEN 0
       ELSE CHOOSE j \in starts : \A k \in starts : k <= j

\* the tools called after call s and before call i, in call order
CalledBetween(s, i) == [k \in 1..(i - s - 1) |-> history[s + k].tool]

\* C17: after record_flow_start every subsequent tool call is recorded as a
\* step until record_flow_stop, which returns the steps recorded since the
\* start, in call order, and leaves the recorder stopped and empty.
C17_FlowRecording ==
    \A i \in 1..Len(history) :
        (/\ history[i].tool = "record_flow_stop"
         /\ history[i].result = "ok"
         /\ LastStart(i) # 0)
        => history[i].steps = CalledBetween(LastStart(i), i)

\* what does hold: a successful record_flow_stop leaves the recorder stopped
\* and empty
C17_StopLeavesRecorderEmpty ==
    (/\ history # <<>>
     /\ history[Len(history)].tool = "record_flow_stop"
     /\ history[Len(history)].result = "ok")
    => flowRecorder = [isRecording |-> FALSE, steps |-> <<>>]


\* ---------------------------------------------------------------------------
\* Selector derivation (cssEscape)
\* ---------------------------------------------------------------------------

\* longest id
MaxIdLen == 2

\* the character class of cssEscape's regular expression
\*   [ #.;?+*~\':"!^$\[\]()=>|\/@]
SpecialChars ==
    {" ", "#", ".", ";", "?", "+", "*", "~", "'", ":", "\"", "!", "^", "$",
     "[", "]", "(", ")", "=", ">", "|", "/", "@"}

\* the class without the colon
SpecialCharsNoColon == SpecialChars \ {":"}

\* characters outside the class, the escape marker among them
OtherChars == {"a", "-", "_", ",", "\\"}

IdChars == SpecialChars \cup OtherChars

RECURSIVE EscapeWith(_, _)
EscapeWith(id, class) ==
    IF id = <<>> THEN <<>>
    ELSE (IF Head(id) \in class THEN <<"\\", Head(id)>> ELSE <<Head(id)>>)
         \o EscapeWith(Tail(id), class)

\* a cssEscape whose class lacks the colon
cssEscapeNoColon(id) == EscapeWith(id, SpecialCharsNoColon)

\* id.replace(/([...])/g, '\\$1'): every match is replaced by a backslash
\* followed by the match
cssEscape(id) == EscapeWith(id, SpecialChars)

\* tableCss: `#${cssEscape(tableId)}`
tableCss ==
    /\ css = <<>>
    /\ css' = <<"#">> \o cssEscape(rawId)
    /\ UNCHANGED rawId
    /\ CodecOnly

RawIds == UNION {[1..n -> IdChars] : n \in 0..MaxIdLen}

InitCodec ==
    /\ ResolveIdle
    /\ ReconIdle
    /\ ReplIdle
    /\ ActionIdle
    /\ ServerIdle
    /\ PageIdle
    /\ RecIdle
    /\ GoIdle
    /\ RowIdle
    /\ NavIdle
    /\ ScanIdle
    /\ ToolsIdle
    /\ BtnIdle
    /\ DlgIdle
    /\ rawId \in RawIds
    /\ css = <<>>

NextCodec == tableCss

SpecCodec == InitCodec /\ [][NextCodec]_vars

\* the number of characters of class among the first i characters of id
CountIn(id, i, class) == Cardinality({k \in 1..i : id[k] \in class})

\* out is id with each character of class prefixed by one escape marker and
\* nothing else changed: character i of id stands at position i plus the
\* number of class characters up to i, a marker stands before it iff it is
\* of the class, and out has no further characters
EscapedOnce(id, out, class) ==
    /\ Len(out) = Len(id) + CountIn(id, Len(id), class)
    /\ \A i \in 1..Len(id) :
          LET at == i + CountIn(id, i, class)
          IN /\ out[at] = id[i]
             /\ id[i] \in class => out[at - 1] = "\\"

\* C18: cssEscape prefixes each occurrence of a character of its class
\* (space # . ; ? + * ~ ' : " ! ^ $ [ ] ( ) = > | / @) with exactly one
\* backslash and leaves every other character unchanged; an id with none of
\* these characters is returned unchanged.
C18_EscapesEachSpecialOnce ==
    css # <<>> =>
        /\ EscapedOnce(rawId, Tail(css), SpecialChars)
        /\ (\A i \in 1..Len(rawId) : rawId[i] \notin SpecialChars)
              => Tail(css) = rawId

\* an id with a special and an ordinary character has been escaped
C18_Witness ==
    /\ rawId = <<"a", ".">>
    /\ css = <<"#", "a", "\\", ".">>

\* the statement with the colon left out of the list: then the colon would
\* be one of the characters left unchanged
C18_ColonNotListed ==
    css # <<>> =>
        /\ EscapedOnce(rawId, Tail(css), SpecialCharsNoColon)
        /\ (\A i \in 1..Len(rawId) : rawId[i] \notin SpecialCharsNoColon)
              => Tail(css) = rawId


\* ---------------------------------------------------------------------------
\* Pressing Go (pressGo): REPL, generated server, CLI
\* ---------------------------------------------------------------------------

\* the inner table's body once the press has settled
\*   "none"      no tr in the tbody
\*   "plain_tr"  a tr that is not a tr.sapMListTblRow
\*   "list_row"  a tr.sapMListTblRow without td[data-sap-ui-column] (the
\*               table's no-data row is one)
\*   "data_row"  a tr.sapMListTblRow with td[data-sap-ui-column] cells
\* text: the first row has inner text; noData: an illustrated-message title
\* containing 'No data' is in the document
GoDoms ==
    [noData : BOOLEAN,
     body : {"none", "plain_tr", "list_row", "data_row"},
     text : BOOLEAN]

\* waitForSelector("table[id$='-innerTable-listUl'] tbody tr") resolves
HasBodyRow(d) == d.body # "none"

\* the REPL's and the server's waitForFunction: some tr.sapMListTblRow has a
\* td[data-sap-ui-column]
HasDataCells(d) == d.body = "data_row"

\* the CLI's waitForFunction: a tr.sapMListTblRow exists and its first one
\* has a cell with text or inner text
FirstRowHasText(d) == d.body \in {"list_row", "data_row"} /\ d.text

\* getRows: one row object per tr.sapMListTblRow of the first table
RowCount(d) == IF d.body \in {"list_row", "data_row"} THEN 1 ELSE 0

GoRows(d) == [kind |-> "rows", rowCount |-> RowCount(d), message |-> FALSE]
GoNoData == [kind |-> "no_data", rowCount |-> 0, message |-> TRUE]
GoTimeout == [kind |-> "timeout", rowCount |-> 0, message |-> FALSE]

\* the press itself (page.evaluate: firePress or click, errors ignored),
\* and the REPL's and the server's waitForTimeout(2000); the next await is
\* the waitForSelector
PressGo(who) ==
    /\ goImpl = "none"
    /\ goImpl' = who
    /\ goPc' = "waitForSelector"
    /\ UNCHANGED <<goDom, goWaits, goOut>>
    /\ GoOnly

\* REPL "go"
cmd_go == PressGo("repl")

\* server tool press_go
pressGo == PressGo("server")

\* CLI "go"
go == PressGo("cli")

\* waitForSelector settles: it times out when the tbody has no tr; after it
\* the REPL and the server look for the no-data title, the CLI does not
SelectorWaitReturns ==
    /\ goPc = "waitForSelector"
    /\ goWaits' = goWaits \cup {"selector"}
    /\ IF ~HasBodyRow(goDom)
       THEN goPc' = "done" /\ goOut' = GoTimeout
       ELSE /\ goPc' = IF goImpl = "cli" THEN "waitForFunction" ELSE "noData"
            /\ UNCHANGED goOut
    /\ UNCHANGED <<goDom, goImpl>>
    /\ GoOnly

\* hasNoDataMessage is evaluated (REPL, server)
NoDataCheckReturns ==
    /\ goPc = "noData"
    /\ IF goDom.noData
       THEN goPc' = "done" /\ goOut' = GoNoData
       ELSE goPc' = "waitForFunction" /\ UNCHANGED goOut
    /\ UNCHANGED <<goDom, goImpl, goWaits>>
    /\ GoOnly

\* waitForFunction settles, and the rows are read
RowWaitReturns ==
    /\ goPc = "waitForFunction"
    /\ goWaits' = goWaits \cup {"rows"}
    /\ goPc' = "done"
    /\ goOut' =
          IF (goImpl = "cli" /\ FirstRowHasText(goDom))
             \/ (goImpl # "cli" /\ HasDataCells(goDom))
          THEN GoRows(goDom)
          ELSE GoTimeout
    /\ UNCHANGED <<goDom, goImpl>>
    /\ GoOnly

InitGo ==
    /\ ResolveIdle
    /\ ReconIdle
    /\ ReplIdle
    /\ ActionIdle
    /\ ServerIdle
    /\ PageIdle
    /\ RecIdle
    /\ CodecIdle
    /\ RowIdle
    /\ NavIdle
    /\ ScanIdle
    /\ ToolsIdle
    /\ BtnIdle
    /\ DlgIdle
    /\ goDom \in GoDoms
    /\ goImpl = "none"
    /\ goPc = "idle"
    /\ goWaits = {}
    /\ goOut = [kind |-> "none", rowCount |-> 0, message |-> FALSE]

NextGo ==
    \/ cmd_go
    \/ pressGo
    \/ go
    \/ SelectorWaitReturns
    \/ NoDataCheckReturns
    \/ RowWaitReturns

SpecGo == InitGo /\ [][NextGo]_vars

\* C20: whenever the no-data indicator is present after Go was pressed,
\* pressGo returns rows = [], rowCount = 0 and a no-data message, without
\* waiting on the row-readiness predicate and without a timeout, in the
\* REPL, the CLI and the server.
C20_NoDataIsSuccess ==
    (goPc = "done" /\ goDom.noData)
        => goOut = GoNoData /\ "rows" \notin goWaits

\* the REPL and the server do take the no-data path once the tbody holds a
\* row of any kind
C20_NoDataAfterBodyRow ==
    (goPc = "done" /\ goDom.noData /\ goImpl # "cli" /\ HasBodyRow(goDom))
        => goOut = GoNoData /\ "rows" \notin goWaits


\* ---------------------------------------------------------------------------
\* Selecting a row (selectRow): REPL, generated server
\* ---------------------------------------------------------------------------

\* what a caller may pass as the row index; "x" is not a number
RowArgs == {"-1", "0", "1", "x"}

\* Number.isFinite(Number(rowIndexArg)) ? Number(rowIndexArg) : 0
ParsedRow(a) ==
    CASE a = "-1" -> -1
      [] a = "1" -> 1
      [] OTHER -> 0

\* the other value of aria-checked
Toggled(c) == IF c = "true" THEN "false" ELSE "true"

\* one attempt, with the checkbox state before and after it
Attempt(how, to) == [how |-> how, from |-> rowCb, to |-> to]

RowEnds(text) ==
    /\ rowPc' = "done"
    /\ rowReport' = [text |-> text, row |-> ParsedRow(rowArg)]

\* REPL selectRow up to its first interaction: without a checkbox the row
\* is clicked and 'row N clicked' printed; with one, aria-checked is read
\* and the checkbox is focused and pressed
cmd_selectRow ==
    /\ rowImpl = "none"
    /\ rowImpl' = "repl"
    /\ IF rowCb = "absent"
       THEN \/ /\ rowTried' = Append(rowTried, Attempt("row", rowCb))
               /\ RowEnds("clicked")
            \/ /\ RowEnds("error")
               /\ UNCHANGED rowTried
       ELSE /\ rowPc' = "press"
            /\ UNCHANGED <<rowTried, rowReport>>
    /\ UNCHANGED <<rowArg, rowCb, rowBg>>
    /\ RowOnly

\* after an attempt the REPL reads aria-checked: 'true' ends the command
\* with 'row N selected'
AfterAttempt(after, next) ==
    IF after = "true" THEN RowEnds("selected")
    ELSE /\ rowPc' = next
         /\ UNCHANGED rowReport

\* try { focus(); press(' ') } catch {}: the checkbox toggles or does not
KeyPressReturns ==
    /\ rowImpl = "repl"
    /\ rowPc = "press"
    /\ \E to \in {rowCb, Toggled(rowCb)} :
          /\ rowCb' = to
          /\ rowTried' = Append(rowTried, Attempt("keyboard", to))
          /\ AfterAttempt(to, IF rowBg THEN "decoration" ELSE "row")
    /\ UNCHANGED <<rowArg, rowBg, rowImpl>>
    /\ RowOnly

\* cbBg.first().click(): the checkbox toggles or does not, or the click
\* rejects
DecorationClickReturns ==
    /\ rowImpl = "repl"
    /\ rowPc = "decoration"
    /\ \/ \E to \in {rowCb, Toggled(rowCb)} :
             /\ rowCb' = to
             /\ rowTried' = Append(rowTried, Attempt("decoration", to))
             /\ AfterAttempt(to, "row")
       \/ /\ RowEnds("error")
          /\ UNCHANGED <<rowCb, rowTried>>
    /\ UNCHANGED <<rowArg, rowBg, rowImpl>>
    /\ RowOnly

\* row.click(), and the final message
RowClickReturns ==
    /\ rowImpl = "repl"
    /\ rowPc = "row"
    /\ \/ \E to \in {rowCb, Toggled(rowCb)} :
             /\ rowCb' = to
             /\ rowTried' = Append(rowTried, Attempt("row", to))
             /\ RowEnds(IF to = "true" THEN "selected" ELSE "unchanged")
       \/ /\ RowEnds("error")
          /\ UNCHANGED <<rowCb, rowTried>>
    /\ UNCHANGED <<rowArg, rowBg, rowImpl>>
    /\ RowOnly

\* server selectRow up to `await checkbox.click()`
selectRow ==
    /\ rowImpl = "none"
    /\ rowArg # "x"
    /\ rowImpl' = "server"
    /\ rowPc' = "click"
    /\ UNCHANGED <<rowArg, rowCb, rowBg, rowTried, rowReport>>
    /\ RowOnly

\* checkbox.click() settles: without a checkbox it times out; with one the
\* server returns 'Row N selected' without reading the checkbox
CheckboxClickReturns ==
    /\ rowImpl = "server"
    /\ rowPc = "click"
    /\ IF rowCb = "absent"
       THEN /\ rowPc' = "done"
            /\ rowReport' = [text |-> "error", row |-> ParsedRow(rowArg)]
            /\ UNCHANGED <<rowCb, rowTried>>
       ELSE \E to \in {rowCb, Toggled(rowCb)} :
               /\ rowCb' = to
               /\ rowTried' = Append(rowTried, Attempt("checkbox_click", to))
               /\ rowPc' = "done"
               /\ rowReport' = [text |-> "selected", row |-> ParsedRow(rowArg)]
    /\ UNCHANGED <<rowArg, rowBg, rowImpl>>
    /\ RowOnly

InitSelect ==
    /\ ResolveIdle
    /\ ReconIdle
    /\ ReplIdle
    /\ ActionIdle
    /\ ServerIdle
    /\ PageIdle
    /\ RecIdle
    /\ CodecIdle
    /\ GoIdle
    /\ NavIdle
    /\ ScanIdle
    /\ ToolsIdle
    /\ BtnIdle
    /\ DlgIdle
    /\ rowArg \in RowArgs
    /\ rowCb \in {"absent", "false", "true"}
    /\ rowBg \in BOOLEAN
    /\ rowCb = "absent" => ~rowBg
    /\ rowImpl = "none"
    /\ rowPc = "idle"
    /\ rowTried = <<>>
    /\ rowReport = [text |-> "none", row |-> 0]

NextSelect ==
    \/ cmd_selectRow
    \/ KeyPressReturns
    \/ DecorationClickReturns
    \/ RowClickReturns
    \/ selectRow
    \/ CheckboxClickReturns

SpecSelect == InitSelect /\ [][NextSelect]_vars

\* the place of an attempt in the prescribed order
Rank(how) ==
    CASE how = "keyboard" -> 1
      [] how = "decoration" -> 2
      [] how = "row" -> 3
      [] OTHER -> 0

\* C22: selectRow tries keyboard activation of the checkbox, then a click
\* on its decoration, then a click on the row, in this order; it moves to
\* the next attempt only when the previous one left the selection state
\* unchanged; and it reports the row as selected only when the checkbox
\* state it finally observed is checked.
C22_SelectRowFallback ==
    /\ \A k \in 1..Len(rowTried) :
          /\ Rank(rowTried[k].how) > 0
          /\ k > 1 => /\ Rank(rowTried[k - 1].how) < Rank(rowTried[k].how)
                      /\ rowTried[k - 1].from = rowTried[k - 1].to
          /\ (k = 1 /\ rowTried[k].from # "absent") => rowTried[k].how = "keyboard"
    /\ (rowPc = "done" /\ rowReport.text = "selected") => rowCb = "true"

\* the REPL on a row that is not selected yet keeps the order, goes on only
\* after an attempt that changed nothing, and reports what it observed
C22_ReplOnUnselectedRow ==
    (rowImpl = "repl" /\ (rowTried # <<>> => rowTried[1].from # "true"))
        => C22_SelectRowFallback


\* ---------------------------------------------------------------------------
\* Opening the object page of a row (openObjectPage): REPL, generated server
\* ---------------------------------------------------------------------------

\* the 60000 ms timeout of the two raced waits, in ticks
NavTimeoutTicks == 2

\* REPL, first wait: .sapUxAPObjectPageLayout or an object-page header
ReplLandmark(pg) == pg.layout \/ pg.header

\* REPL, second wait: location.href !== prev
ReplLocationChanged(pg) == pg.moved

\* server, first wait: waitForSelector('.sapUxAPObjectPageLayout')
ServerLandmark(pg) == pg.layout

\* server, second wait: window.location.hash.includes('ObjectPage')
ServerHashMatches(pg) == pg.hashOP

\* one of the raced waits of the running implementation is satisfied
RaceWon ==
    IF navImpl = "repl"
    THEN ReplLandmark(navPage) \/ ReplLocationChanged(navPage)
    ELSE ServerLandmark(navPage) \/ ServerHashMatches(navPage)

\* REPL openObject up to the click on the navigation icon; without an icon
\* it throws 'Navigation icon not found for this row'
cmd_openObject ==
    /\ navImpl = "none"
    /\ navImpl' = "repl"
    /\ IF navIcon
       THEN navPc' = "click" /\ UNCHANGED navOut
       ELSE navPc' = "done" /\ navOut' = "icon_not_found"
    /\ UNCHANGED <<navIcon, navPage, navClock>>
    /\ NavOnly

\* server open_object_page up to `await navIcon.click()`
openObjectPage ==
    /\ navImpl = "none"
    /\ navImpl' = "server"
    /\ navPc' = "click"
    /\ UNCHANGED <<navIcon, navPage, navClock, navOut>>
    /\ NavOnly

\* the click settles: it rejects when there is no icon to click
NavClickReturns ==
    /\ navPc = "click"
    /\ IF navIcon
       THEN navPc' = "race" /\ UNCHANGED navOut
       ELSE navPc' = "done" /\ navOut' = "click_failed"
    /\ UNCHANGED <<navIcon, navPage, navClock, navImpl>>
    /\ NavOnly

\* the page reacts to the click while the race is pending: the object
\* page layout or its header is rendered, or the location changes, to a
\* hash that names an ObjectPage or to one that does not
PageReacts ==
    /\ navPc = "race"
    /\ \/ navPage' = [navPage EXCEPT !.layout = TRUE]
       \/ navPage' = [navPage EXCEPT !.header = TRUE]
       \/ \E h \in BOOLEAN :
             navPage' = [navPage EXCEPT !.moved = TRUE, !.hashOP = h]
    /\ navPage' # navPage
    /\ UNCHANGED <<navIcon, navClock, navImpl, navPc, navOut>>
    /\ NavOnly

\* time passes while neither raced wait is satisfied
NavTick ==
    /\ navPc = "race"
    /\ ~RaceWon
    /\ navClock < NavTimeoutTicks
    /\ navClock' = navClock + 1
    /\ UNCHANGED <<navIcon, navPage, navImpl, navPc, navOut>>
    /\ NavOnly

\* Promise.race settles: with the first wait that is satisfied, or with the
\* TimeoutError of the waits once the bound has passed
RaceSettles ==
    /\ navPc = "race"
    /\ RaceWon \/ navClock = NavTimeoutTicks
    /\ navPc' = "done"
    /\ navOut' = IF RaceWon THEN "opened" ELSE "timeout"
    /\ UNCHANGED <<navIcon, navPage, navClock, navImpl>>
    /\ NavOnly

InitNav ==
    /\ ResolveIdle
    /\ ReconIdle
    /\ ReplIdle
    /\ ActionIdle
    /\ ServerIdle
    /\ PageIdle
    /\ RecIdle
    /\ CodecIdle
    /\ GoIdle
    /\ RowIdle
    /\ ScanIdle
    /\ ToolsIdle
    /\ BtnIdle
    /\ DlgIdle
    /\ navIcon \in BOOLEAN
    /\ navPage = ListReport
    /\ navClock = 0
    /\ navImpl = "none"
    /\ navPc = "idle"
    /\ navOut = "none"

NextNav ==
    \/ cmd_openObject
    \/ openObjectPage
    \/ NavClickReturns
    \/ PageReacts
    \/ NavTick
    \/ RaceSettles

SpecNav == InitNav /\ [][NextNav]_vars

\* one of the two signals has happened: the object-page layout or header
\* landmark is there, or the location differs from the one before the click
NavSignal == navPage.layout \/ navPage.header \/ navPage.moved

\* C23: after the click on the navigation icon, openObjectPage completes
\* successfully once the object-page layout or header landmark has appeared
\* or the location differs from the location before the click, and it fails
\* only if neither happened within the bound.
C23_FirstOfTwoSignals ==
    /\ (navPc = "done" /\ navOut = "timeout") => ~NavSignal
    /\ (navPc = "done" /\ navOut = "opened") => NavSignal
    /\ (navPc = "race" /\ NavSignal) => RaceWon

\* the REPL races exactly these two signals
C23_ReplFirstOfTwoSignals == navImpl = "repl" => C23_FirstOfTwoSignals


\* ---------------------------------------------------------------------------
\* The control scan (extractUi5Controls)
\* ---------------------------------------------------------------------------

\* most elements in the registry
MaxRegistry == 3

\* where the extraction of an element throws
\*   "none"      nowhere
\*   "metadata"  in getMetadata / getId / getDomRef, before the anchor test
\*   "text"      in getText / getTitle / getLabel, inside the inner try
\*   "bindings"  in getBinding, after the filters, outside any inner try
FailPoints == {"none", "metadata", "text", "bindings"}

\* an element of the registry: live = it has a DOM reference, shell = its
\* type is a shell type and not an interactive one
Elements ==
    [live : BOOLEAN, shell : BOOLEAN, fails : FailPoints]

\* a scan that gives up at the first element that throws
ScanEntryNoCatch(acc, e, n, shellToo) ==
    IF e.fails \in {"metadata", "bindings"} THEN <<>>
    ELSE IF ~e.live THEN acc
    ELSE IF ~shellToo /\ e.shell THEN acc
    ELSE Append(acc, [id |-> n, text |-> e.fails # "text"])

\* the body of registry.forEach for element e, the n-th of the registry:
\*   try { ...; if (!domRef) return; if (!includeShell && shell) return;
\*         ...; controls.push({...}) } catch (e) { /* ignore */ }
\* text records whether the control's text could be read
ScanEntry(acc, e, n, shellToo) ==
    IF e.fails = "metadata" THEN acc
    ELSE IF ~e.live THEN acc
    ELSE IF ~shellToo /\ e.shell THEN acc
    ELSE IF e.fails = "bindings" THEN acc
    ELSE Append(acc, [id |-> n, text |-> e.fails # "text"])

\* registry.forEach, from element n on
RECURSIVE ScanFrom(_, _, _, _)
ScanFrom(acc, reg, n, shellToo) ==
    IF n > Len(reg) THEN acc
    ELSE ScanFrom(ScanEntry(acc, reg[n], n, shellToo), reg, n + 1, shellToo)

\* page.evaluate(extractionFunction, args.includeShell)
extractUi5Controls ==
    /\ scanPc = "idle"
    /\ scanPc' = "done"
    /\ scanned' = ScanFrom(<<>>, registry, 1, includeShell)
    /\ UNCHANGED <<registry, includeShell>>
    /\ ScanOnly

Registries == UNION {[1..n -> Elements] : n \in 0..MaxRegistry}

InitScan ==
    /\ ResolveIdle
    /\ ReconIdle
    /\ ReplIdle
    /\ ActionIdle
    /\ ServerIdle
    /\ PageIdle
    /\ RecIdle
    /\ CodecIdle
    /\ GoIdle
    /\ RowIdle
    /\ NavIdle
    /\ ToolsIdle
    /\ BtnIdle
    /\ DlgIdle
    /\ registry \in Registries
    /\ includeShell \in BOOLEAN
    /\ scanned = <<>>
    /\ scanPc = "idle"

NextScan == extractUi5Controls

SpecScan == InitScan /\ [][NextScan]_vars

\* element n has a live render anchor, passes the shell filter and its
\* extraction does not throw
Materialized(n) ==
    /\ registry[n].live
    /\ includeShell \/ ~registry[n].shell
    /\ registry[n].fails \notin {"metadata", "bindings"}

\* C26: the scan output is exactly the elements that have a live render
\* anchor, pass the shell filter and extract without throwing, in registry
\* order; an element whose extraction throws is skipped and neither aborts
\* the scan nor removes any other element.
C26_ScanSkipsFailures ==
    scanPc = "done" =>
        /\ \A n \in 1..Len(registry) :
              Materialized(n) <=> \E i \in 1..Len(scanned) : scanned[i].id = n
        /\ \A i, j \in 1..Len(scanned) : i < j => scanned[i].id < scanned[j].id

\* a scan went over an element that throws between two that are returned
C26_Witness ==
    /\ scanPc = "done"
    /\ Len(registry) = 3
    /\ registry[2].live /\ registry[2].fails = "bindings"
    /\ Len(scanned) = 2
    /\ scanned[1].id = 1 /\ scanned[2].id = 3

\* ---------------------------------------------------------------------
\* Tool listing and dispatch of the generated servers.
\*   stdio:     ListTools handler and the CallTool switch
\*   http_rest: GET /api/tools and POST /api/tools/:toolName
\*   http_mcp:  the HTTP server's ListTools / CallTool handlers
\* Both HTTP endpoints dispatch through handleToolCall.
\* ---------------------------------------------------------------------
Endpoints == {"stdio", "http_rest", "http_mcp"}

\* the 15 tools of the HTTP server's MCP listing
HttpMcpTools ==
    {"start_app", "press_go", "get_table_rows", "execute_action",
     "select_row", "open_object_page", "get_object_actions",
     "get_object_fields", "execute_object_action", "fill_form_field",
     "get_form_fields", "get_filter_fields", "set_filter", "submit_form",
     "close_app"}

\* the 28 tools of the stdio listing; GET /api/tools returns the same names
StdioTools ==
    HttpMcpTools \cup
    {"get_table_actions", "execute_table_action", "execute_dialog_action",
     "discard_draft", "get_clickable_elements", "highlight_element",
     "click_by_selector", "type_by_selector", "wait_for_selector",
     "wait_for_missing_selector", "get_messages", "record_flow_start",
     "record_flow_stop"}

ListedTools(e) ==
    CASE e = "stdio"     -> StdioTools
      [] e = "http_rest" -> StdioTools
      [] e = "http_mcp"  -> HttpMcpTools

\* the case labels of the dispatching switch
SwitchCases(e) ==
    IF e = "stdio" THEN StdioTools
    ELSE HttpMcpTools \cup {"discard_draft"}

\* the case labels whose handler method the server class defines
ImplementedCases(e) ==
    IF e = "stdio" THEN StdioTools
    ELSE HttpMcpTools

handleToolCall(e, name) ==
    IF name \notin SwitchCases(e) THEN "unknown_tool"
    ELSE IF name \notin ImplementedCases(e) THEN "no_method"
    ELSE "handled"

\* a client asks for the tool list
listTools ==
    /\ toolPc = "idle"
    /\ advertised' = ListedTools(endpoint)
    /\ toolPc' = "listed"
    /\ UNCHANGED <<endpoint, toolName, toolOut>>
    /\ ToolsOnly

\* the client calls one of the advertised tools
callTool(name) ==
    /\ toolPc = "listed"
    /\ name \in advertised
    /\ toolName' = name
    /\ toolPc' = "called"
    /\ UNCHANGED <<endpoint, advertised, toolOut>>
    /\ ToolsOnly

\* the dispatching switch answers
CallReturns ==
    /\ toolPc = "called"
    /\ toolOut' = handleToolCall(endpoint, toolName)
    /\ toolPc' = "done"
    /\ UNCHANGED <<endpoint, advertised, toolName>>
    /\ ToolsOnly

InitTools ==
    /\ ResolveIdle
    /\ ReconIdle
    /\ ReplIdle
    /\ ActionIdle
    /\ ServerIdle
    /\ PageIdle
    /\ RecIdle
    /\ CodecIdle
    /\ GoIdle
    /\ RowIdle
    /\ NavIdle
    /\ ScanIdle
    /\ BtnIdle
    /\ DlgIdle
    /\ endpoint \in Endpoints
    /\ advertised = {}
    /\ toolName = ""
    /\ toolPc = "idle"
    /\ toolOut = "none"

NextTools ==
    \/ listTools
    \/ \E name \in StdioTools : callTool(name)
    \/ CallReturns

SpecTools == InitTools /\ [][NextTools]_vars

\* C28: every tool name a generated server's listing advertises is
\* dispatched to an implemented handler method; no advertised tool is
\* answered with 'Unknown tool' or fails for a missing handler method.
C28_ListingAndDispatchAgree ==
    toolPc = "done" => toolOut = "handled"

\* the stdio server and the HTTP server's MCP listing do agree with their
\* dispatch
C28_StdioAndMcpAgree ==
    (toolPc = "done" /\ endpoint \in {"stdio", "http_mcp"}) =>
        toolOut = "handled"

\* ---------------------------------------------------------------------
\* The action lists of the table descriptors (extractTables of
\* extract-all.js, main of extract-tables.js).  An id is a sequence of
\* pieces: the id of the control it is built on, then what was appended.
\* ---------------------------------------------------------------------
\* most controls in a scan
MaxBtnControls == 3

\* ids that include '::table::' and end with '::LineItem'
LineItemIds == {"app::table::Orders::LineItem", "app::table::Items::LineItem"}
\* the id of a control that is no line-item table
OtherIds == {"app::Dialog"}
\* what is appended to an id
IdTails == {<<"-toolbar", "-overflowButton">>, <<"::StandardAction::Create">>,
            <<"-export">>, <<"-settings">>, <<"-innerTable">>}
ControlTypes == {"sap.m.Button", "sap.m.Text"}

\* c.type && c.type.includes('Button')
IsButton(c) == c.type \in {"sap.m.Button"}

\* a.startsWith(b) on ids, b a whole id
StartsWith(a, b) == Len(a) >= Len(b) /\ SubSeq(a, 1, Len(b)) = b
\* a.startsWith(b + piece), where piece is the start of an appended piece
StartsWithPiece(a, b, pieces) ==
    /\ Len(a) > Len(b)
    /\ SubSeq(a, 1, Len(b)) = b
    /\ a[Len(b) + 1] \in pieces
\* id.endsWith('-settings')
EndsWithSettings(a) == Len(a) > 0 /\ a[Len(a)] = "-settings"

\* c.id.includes('::table::') && c.id.endsWith('::LineItem')
IsLineItemRoot(c) == Len(c.id) = 1 /\ c.id[1] \in LineItemIds

\* the filter of actionCandidates for the table with id base
IsActionCandidate(c, base) ==
    \/ StartsWithPiece(c.id, base, {"-toolbar"})
    \/ StartsWithPiece(c.id, base, {"::StandardAction::Create"})
    \/ StartsWithPiece(c.id, base, {"-export"})
    \/ EndsWithSettings(c.id)

classifyActionId(id) ==
    IF Len(id) = 0 THEN "unknown"
    ELSE IF \E i \in 1..Len(id) : id[i] = "::StandardAction::Create" THEN "standard"
    ELSE IF EndsWithSettings(id) \/ (\E i \in 1..Len(id) : id[i] = "-export")
         THEN "standard"
    ELSE IF \E i \in 1..Len(id) : id[i] = "-overflowButton" THEN "standard"
    ELSE "custom_candidate"

\* the actions of one table root, in the order of the controls
TableActions(cs, base) ==
    LET candidates == SelectSeq(cs, LAMBDA c : IsActionCandidate(c, base))
        buttons == SelectSeq(candidates, IsButton)
    IN  [i \in 1..Len(buttons) |->
            [id |-> buttons[i].id, actionType |-> classifyActionId(buttons[i].id)]]

\* one descriptor per line-item table
extractTableActions(cs) ==
    LET roots == SelectSeq(cs, IsLineItemRoot) IN
    [r \in 1..Len(roots) |->
        [tableId |-> roots[r].id, actions |-> TableActions(cs, roots[r].id)]]

BtnPool ==
    {[id |-> <<t>>, type |-> "sap.ui.mdc.Table"] : t \in LineItemIds}
    \cup {[id |-> <<h>> \o tl, type |-> ty] :
            h \in LineItemIds \cup OtherIds, tl \in IdTails, ty \in ControlTypes}

BtnScans ==
    {cs \in UNION {[1..k -> BtnPool] : k \in 0..MaxBtnControls} :
        \A i, j \in 1..Len(cs) : cs[i].id = cs[j].id => i = j}

\* extract-all / extract-tables run on the scan
ExtractTableActions ==
    /\ btnPc = "idle"
    /\ btnTables' = extractTableActions(btnControls)
    /\ btnPc' = "done"
    /\ UNCHANGED btnControls
    /\ BtnOnly

InitBtn ==
    /\ ResolveIdle
    /\ ReconIdle
    /\ ReplIdle
    /\ ActionIdle
    /\ ServerIdle
    /\ PageIdle
    /\ RecIdle
    /\ CodecIdle
    /\ GoIdle
    /\ RowIdle
    /\ NavIdle
    /\ ScanIdle
    /\ ToolsIdle
    /\ DlgIdle
    /\ btnControls \in BtnScans
    /\ btnTables = <<>>
    /\ btnPc = "idle"

NextBtn == ExtractTableActions

SpecBtn == InitBtn /\ [][NextBtn]_vars

\* C29: every action in a table descriptor's action list has an id that
\* starts with that table's id, so no button of one table (its settings
\* button included) appears in another table's action list.
C29_ActionsScopedToTable ==
    btnPc = "done" =>
        \A t \in 1..Len(btnTables) :
            \A a \in 1..Len(btnTables[t].actions) :
                StartsWith(btnTables[t].actions[a].id, btnTables[t].tableId)

\* every action other than a settings button starts with its table's id
C29_NonSettingsActionsScoped ==
    btnPc = "done" =>
        \A t \in 1..Len(btnTables) :
            \A a \in 1..Len(btnTables[t].actions) :
                ~EndsWithSettings(btnTables[t].actions[a].id) =>
                    StartsWith(btnTables[t].actions[a].id, btnTables[t].tableId)

\* ---------------------------------------------------------------------
\* The column-settings-dialog pass of the scanner (--p13n-columns): one
\* page.evaluate that walks the settings buttons, presses each, waits for
\* the dialog, reads the column labels and closes the dialog.  The page
\* decides whether and when the dialog is in the document.
\* ---------------------------------------------------------------------
\* most settings buttons on a page
MaxButtons == 2
\* for (let i = 0; i < 100; i += 1)
MaxPolls == 100

\* a loop step that leaves the counter alone
NextPollStuck(i) == i

\* i += 1
NextPoll(i) == i + 1

\* for (const btn of buttons): the next button, or the end of the pass
AfterButton ==
    /\ dlgIdx' = dlgIdx + 1
    /\ dlgPc' = IF dlgIdx + 1 > dlgButtons THEN "done" ELSE "press"

\* the pass begins: buttons is a snapshot of the settings buttons
StartPass ==
    /\ dlgPc = "idle"
    /\ dlgPc' = IF dlgButtons = 0 THEN "done" ELSE "press"
    /\ UNCHANGED <<dlgButtons, dlgIdx, dlgPolls, dlgOpen, dlgOut, dlgTimedOut>>
    /\ DlgOnly

\* firePress / click returned: the wait begins at i = 0
PressReturns ==
    /\ dlgPc = "press"
    /\ dlgPc' = "poll"
    /\ dlgPolls' = 0
    /\ dlgOpen' \in BOOLEAN
    /\ UNCHANGED <<dlgButtons, dlgIdx, dlgOut, dlgTimedOut>>
    /\ DlgOnly

\* firePress threw and so did btn.click(): catch, "ignore one table"
PressThrows ==
    /\ dlgPc = "press"
    /\ AfterButton
    /\ UNCHANGED <<dlgButtons, dlgPolls, dlgOpen, dlgOut, dlgTimedOut>>
    /\ DlgOnly

\* one turn of the wait loop: leave when i reached 100 or the dialog is
\* there, else sleep 100 ms and count
PollStep ==
    /\ dlgPc = "poll"
    /\ IF dlgPolls < MaxPolls /\ ~dlgOpen
       THEN /\ dlgPolls' = NextPoll(dlgPolls)
            /\ UNCHANGED <<dlgPc, dlgTimedOut>>
       ELSE /\ dlgPc' = "read"
            /\ dlgTimedOut' = IF dlgOpen THEN dlgTimedOut
                              ELSE dlgTimedOut \cup {dlgIdx}
            /\ UNCHANGED dlgPolls
    /\ UNCHANGED <<dlgButtons, dlgIdx, dlgOpen, dlgOut>>
    /\ DlgOnly

\* the labels are read and pushed, the OK button (if any) is clicked
ReadAndClose ==
    /\ dlgPc = "read"
    /\ dlgOut' = Append(dlgOut, dlgIdx)
    /\ dlgOpen' \in {dlgOpen, FALSE}
    /\ dlgPc' = "sleep"
    /\ UNCHANGED <<dlgButtons, dlgIdx, dlgPolls, dlgTimedOut>>
    /\ DlgOnly

\* await sleep(200) returned
SleepReturns ==
    /\ dlgPc = "sleep"
    /\ AfterButton
    /\ UNCHANGED <<dlgButtons, dlgPolls, dlgOpen, dlgOut, dlgTimedOut>>
    /\ DlgOnly

\* the page renders or removes the dialog while the pass waits
PageToggles ==
    /\ dlgPc \in {"poll", "read", "sleep"}
    /\ dlgOpen' = ~dlgOpen
    /\ UNCHANGED <<dlgButtons, dlgIdx, dlgPolls, dlgPc, dlgOut, dlgTimedOut>>
    /\ DlgOnly

\* page.evaluate rejects (the page navigated away): catch, "ignore p13n
\* errors", tablesP13n stays empty
EvaluateRejects ==
    /\ dlgPc \in {"press", "poll", "read", "sleep"}
    /\ dlgPc' = "done"
    /\ dlgOut' = <<>>
    /\ UNCHANGED <<dlgButtons, dlgIdx, dlgPolls, dlgOpen, dlgTimedOut>>
    /\ DlgOnly

InitDlg ==
    /\ ResolveIdle
    /\ ReconIdle
    /\ ReplIdle
    /\ ActionIdle
    /\ ServerIdle
    /\ PageIdle
    /\ RecIdle
    /\ CodecIdle
    /\ GoIdle
    /\ RowIdle
    /\ NavIdle
    /\ ScanIdle
    /\ ToolsIdle
    /\ BtnIdle
    /\ dlgButtons \in 0..MaxButtons
    /\ dlgIdx = 1
    /\ dlgPolls = 0
    /\ dlgOpen = FALSE
    /\ dlgPc = "idle"
    /\ dlgOut = <<>>
    /\ dlgTimedOut = {}

\* the steps of the pass itself
PassStep ==
    \/ StartPass
    \/ PressReturns
    \/ PressThrows
    \/ PollStep
    \/ ReadAndClose
    \/ SleepReturns

NextDlg ==
    \/ PassStep
    \/ PageToggles
    \/ EvaluateRejects

SpecDlg == InitDlg /\ [][NextDlg]_vars

\* timers fire and the script keeps running; nothing is assumed of the page
SpecDlgFair == SpecDlg /\ WF_vars(PassStep)

\* C30: the wait for the dialog polls at most 100 times and then goes on
\* whether or not the dialog appeared, and the pass finishes for any page
\* behaviour.
C30_DialogPassTerminates ==
    /\ [](dlgPolls <= MaxPolls)
    /\ [][(dlgPc = "poll" /\ dlgPolls = MaxPolls /\ PollStep) => dlgPc' = "read"]_vars
    /\ <>(dlgPc = "done")

\* a pass finished all its buttons although one wait ran out with no dialog
C30_Witness ==
    /\ dlgPc = "done"
    /\ dlgButtons = 2
    /\ dlgTimedOut # {}
    /\ Len(dlgOut) = dlgButtons

====
